---- MODULE Spec2Model ----
(***************************************************************************)
(* A model of the satellite-image fetch pipeline of clearpath-ui:          *)
(*   src/src/satdist/fetch.py      tile math, zoom selection, direct       *)
(*                                 export, tile stitching, orchestration,  *)
(*                                 save_satellite_bbox                     *)
(*   src/src/satdist/cli.py        the satdist CLI "fetch" command         *)
(*   src/fetch_satellite_bbox.py   the wrapper script                      *)
(*   src/addresses_to_satellite.py the batch tool                          *)
(*                                                                         *)
(* Numbers.  Latitudes and longitudes are integer degrees.  The float      *)
(* arithmetic of the tile math is modelled in fixed point: a fractional    *)
(* tile coordinate is kept as the floor of its value in half pixels        *)
(* (1/512 of a tile), which determines both floor(tile) and                *)
(* round(256 * tile) exactly.  The Mercator ordinate and the cosine are    *)
(* tabulated from the source's formulas at every integer (half) degree.    *)
(***************************************************************************)
EXTENDS Integers, Sequences, FiniteSets, TLC

(***************************************************************************)
(* Program constants.                                                      *)
(***************************************************************************)
\* side of a raster tile in pixels: Image.new(... tiles_x * 256 ...)
TileSize == 256

\* pick_zoom_for_bbox: int(min(19, max(0, round(z_float))))
MaxZoom == 19

\* the callers' clamp: max(1, min(4096, width))
MaxImageSize == 4096

\* len(ARCGIS_EXPORT_URLS)
NumExportMirrors == 2

\* len(ARCGIS_TILE_URLS)
NumTileMirrors == 2

\* half pixels per tile: the fixed-point unit of fractional tile coordinates
HalfPx == 2 * TileSize

(***************************************************************************)
(* Tables of the transcendental functions the source evaluates.            *)
(*                                                                         *)
(* MercYTable[lat + 91], lat in -90..90, is                                *)
(*   floor(2^28 * (1 - ln(tan(r) + 1/cos(r)) / pi) / 2)                    *)
(* with r = radians(max(min(lat, 85.05112878), -85.05112878)), evaluated   *)
(* in IEEE double as the source does.  At the clamp the double result is   *)
(* -6.2e-12 (north) and 1 + 6.2e-12 (south), whence the entries -1 and     *)
(* 2^28 for |lat| >= 86.                                                   *)
(***************************************************************************)
MercYTable ==
  <<268435456, 268435456, 268435456, 268435456, 268435456, 267995781, 260194546, 253594673,
    247873533, 242823024, 238301053, 234206268, 230463834, 227016919, 223821343, 220842085,
    218050907, 215424714, 212944369, 210593844, 208359574, 206229982, 204195103, 202246302,
    200376044, 198577715, 196845480, 195174159, 193559139, 191996288, 190481895, 189012611,
    187585404, 186197519, 184846446, 183529894, 182245759, 180992112, 179767173, 178569300,
    177396973, 176248784, 175123421, 174019666, 172936381, 171872501, 170827031, 169799037,
    168787641, 167792017, 166811387, 165845015, 164892206, 163952304, 163024684, 162108754,
    161203950, 160309736, 159425602, 158551059, 157685640, 156828899, 155980407, 155139754,
    154306544, 153480397, 152660948, 151847842, 151040738, 150239306, 149443226, 148652187,
    147865888, 147084036, 146306346, 145532538, 144762340, 143995488, 143231719, 142470778,
    141712415, 140956383, 140202437, 139450339, 138699851, 137950739, 137202769, 136455712,
    135709339, 134963419, 134217728, 133472036, 132726116, 131979743, 131232686, 130484716,
    129735604, 128985116, 128233018, 127479072, 126723040, 125964677, 125203736, 124439967,
    123673115, 122902917, 122129109, 121351419, 120569567, 119783268, 118992229, 118196149,
    117394717, 116587613, 115774507, 114955058, 114128911, 113295701, 112455048, 111606556,
    110749815, 109884396, 109009853, 108125719, 107231505, 106326701, 105410771, 104483151,
    103543249, 102590440, 101624068, 100643438, 99647814, 98636418, 97608424, 96562954,
    95499074, 94415789, 93312034, 92186671, 91038482, 89866155, 88668282, 87443343,
    86189696, 84905561, 83589009, 82237936, 80850051, 79422844, 77953560, 76439167,
    74876316, 73261296, 71589975, 69857740, 68059411, 66189153, 64240352, 62205473,
    60075881, 57841611, 55491086, 53010741, 50384548, 47593370, 44614112, 41418536,
    37971621, 34229187, 30134402, 25612431, 20561922, 14840782, 8240909, 439674,
    -1, -1, -1, -1, -1>>

\* CosTable[m + 1], m in 0..180, is floor(10^4 * cos(radians(m / 2))):
\* the cosine of the mid latitude (south + north) / 2, with m = |south + north|.
CosTable ==
  <<10000, 9999, 9998, 9996, 9993, 9990, 9986, 9981,
    9975, 9969, 9961, 9953, 9945, 9935, 9925, 9914,
    9902, 9890, 9876, 9862, 9848, 9832, 9816, 9799,
    9781, 9762, 9743, 9723, 9702, 9681, 9659, 9636,
    9612, 9588, 9563, 9537, 9510, 9483, 9455, 9426,
    9396, 9366, 9335, 9304, 9271, 9238, 9205, 9170,
    9135, 9099, 9063, 9025, 8987, 8949, 8910, 8870,
    8829, 8788, 8746, 8703, 8660, 8616, 8571, 8526,
    8480, 8433, 8386, 8338, 8290, 8241, 8191, 8141,
    8090, 8038, 7986, 7933, 7880, 7826, 7771, 7716,
    7660, 7604, 7547, 7489, 7431, 7372, 7313, 7253,
    7193, 7132, 7071, 7009, 6946, 6883, 6819, 6755,
    6691, 6626, 6560, 6494, 6427, 6360, 6293, 6225,
    6156, 6087, 6018, 5948, 5877, 5807, 5735, 5664,
    5591, 5519, 5446, 5372, 5299, 5224, 5150, 5075,
    5000, 4924, 4848, 4771, 4694, 4617, 4539, 4461,
    4383, 4305, 4226, 4146, 4067, 3987, 3907, 3826,
    3746, 3665, 3583, 3502, 3420, 3338, 3255, 3173,
    3090, 3007, 2923, 2840, 2756, 2672, 2588, 2503,
    2419, 2334, 2249, 2164, 2079, 1993, 1908, 1822,
    1736, 1650, 1564, 1478, 1391, 1305, 1218, 1132,
    1045, 958, 871, 784, 697, 610, 523, 436,
    348, 261, 174, 87, 0>>

MercY(lat) == MercYTable[lat + 91]

CosE4(south, north) ==
  LET m == IF south + north < 0 THEN -(south + north) ELSE south + north
  IN  CosTable[m + 1]

(***************************************************************************)
(* Tile math (stitch_tiles' local functions and lonlat_to_global_px).      *)
(* Results are in half pixels at zoom z: 512 * (fractional tile), floored. *)
(***************************************************************************)
\* (lon + 180.0) / 360.0 * (2 ** z)
lon_to_xtile(lon, z) ==
  LET L == lon + 180
  IN  (L \div 45) * 2^(z + 6) + ((L % 45) * 2^(z + 6)) \div 45

\* clamp of the latitude, then the Mercator ordinate times 2 ** z
lat_to_ytile(lat, z) == MercY(lat) \div 2^(19 - z)

\* x * n * 256.0, y * n * 256.0 with the same clamp of the latitude
lonlat_to_global_px(lon, lat, z) ==
  << lon_to_xtile(lon, z), MercY(lat) \div 2^(19 - z) >>

\* int(math.floor(v)) of a fractional tile coordinate
FloorTile(hp) == hp \div HalfPx

\* mutant: the canvas origin is not subtracted
C25_GlobalPx(hp, origin) == (hp + 1) \div 2

\* int(round(px - origin * 256)) of a global pixel coordinate
RoundLocal(hp, origin) == (hp + 1) \div 2 - origin * TileSize

(***************************************************************************)
(* pick_zoom_for_bbox.  With cos_lat > 0 the source computes               *)
(*   z_float = log2(156543.03392 * cos_lat / mpp_target),                  *)
(*   mpp_target = max(0.01, max(1e-6, dLon * 111320 * cos_lat) / target)   *)
(* and round(z_float) >= k  iff  the argument of log2 >= 2^(k - 1/2).      *)
(*  - not floored: the argument is (156543.03392 / 111320) * target / dLon *)
(*    and the test is  target * 130331 >= dLon * 2^k * 65536               *)
(*    (130331 / 65536 = sqrt(2) * 156543.03392 / 111320, rounded up);      *)
(*  - floored at 0.01 (dLon <= 0 or target < 0): the argument is           *)
(*    15654303.392 * cos_lat and the test is cos_lat * 2213.8 >= 2^k;      *)
(*    (the floor is not reached for dLon >= 1 degree, |mid latitude| < 90  *)
(*    and target <= 5000: 111320 * cos(89.5 deg) / 5000 > 0.01);           *)
(*  - mid latitude +-90: cos_lat = 6.1e-17, the argument is floored at     *)
(*    1e-9 and the result is clamped to 0.                                 *)
(* target_px = 0 raises ZeroDivisionError (ZoomRaises).                    *)
(***************************************************************************)
ZoomRaises(target_px) == target_px = 0

ZoomAtLeast(south, west, north, east, target_px, k) ==
  LET dLon == east - west
      c    == CosE4(south, north)
  IN  IF dLon > 0 /\ target_px > 0 /\ dLon * c > target_px \div 1113
      THEN dLon * 2^k <= 16384 /\ target_px * 130331 >= dLon * 2^k * 65536
      ELSE c * 22138 >= 2^k * 10

pick_zoom_for_bbox(south, west, north, east, target_px) ==
  IF south + north >= 180 \/ south + north <= -180
  THEN 0
  ELSE Cardinality({k \in 1..MaxZoom :
                      ZoomAtLeast(south, west, north, east, target_px, k)})

(***************************************************************************)
(* pick_zoom_for_bbox for bboxes narrower than a degree: the width east -  *)
(* west is dM thousandths of a degree, the latitudes are whole degrees.    *)
(*  - not floored (dM * 111.32 * cos_lat > 0.01 * target): the test is     *)
(*    target * 1988.7287 >= dM * 2^k  (1988.7287 = 1000 * sqrt(2) *        *)
(*    156543.03392 / 111320);                                              *)
(*  - floored at 0.01: cos_lat * 2213.8 >= 2^k, as above.                  *)
(***************************************************************************)
ZoomAtLeastMilli(dM, c, target_px, k) ==
  LET q == (c * 11132) \div 10000
  IN  IF dM > 0 /\ target_px > 0 /\ q > 0 /\ dM > target_px \div q
      THEN (target_px * 1988 + (target_px * 7287) \div 10000) \div 2^k >= dM
      ELSE c * 22138 >= 2^k * 10

\* mutant: the result is not capped at 19
C12_NoUpperClamp(south, north, dM, target_px) ==
  IF south + north >= 180 \/ south + north <= -180
  THEN 0
  ELSE Cardinality({k \in 1..(MaxZoom + 5) :
                      ZoomAtLeastMilli(dM, CosE4(south, north), target_px, k)})

\* int(min(19, max(0, round(z_float))))
pick_zoom_milli(south, north, dM, target_px) ==
  IF south + north >= 180 \/ south + north <= -180
  THEN 0
  ELSE Cardinality({k \in 1..MaxZoom :
                      ZoomAtLeastMilli(dM, CosE4(south, north), target_px, k)})

Max(a, b) == IF a >= b THEN a ELSE b

Min(a, b) == IF a <= b THEN a ELSE b

(***************************************************************************)
(* Floating point.  pixel_to_lonlat works on floats whose values are not   *)
(* whole degrees; a float here is an integer number of grid steps with at  *)
(* most FloatBits significant bits, and every arithmetic result is rounded *)
(* to the nearest such number, ties to even, as IEEE 754 does with 53 bits.*)
(***************************************************************************)
Abs(v) == IF v < 0 THEN -v ELSE v

\* the spacing of the floats around v
FloatSpacing(v, bits) ==
  2^(CHOOSE k \in 0..30 :
       /\ Abs(v) < 2^(bits + k)
       /\ k = 0 \/ Abs(v) >= 2^(bits + k - 1))

\* round to nearest, ties to even
RoundFloat(v, bits) ==
  LET q  == FloatSpacing(v, bits)
      lo == (v \div q) * q
      r  == v - lo
  IN  IF 2 * r < q THEN lo
      ELSE IF 2 * r > q THEN lo + q
      ELSE IF (lo \div q) % 2 = 0 THEN lo ELSE lo + q

(***************************************************************************)
(* haversine_m on whole degrees.  HavTable[d + 1], d in 0..360, is         *)
(* floor(10^9 * sin(radians(d) / 2) ** 2) in IEEE double.  The central     *)
(* angle 2 * atan2(sqrt(a), sqrt(1 - a)) is kept as a whole number of      *)
(* degrees, rounded down: the number of d in 1..180 with hav(d) <= a.      *)
(* The cosines have four digits, which near the antipode (where the angle  *)
(* is most sensitive to a) puts the angle within 2 degrees of the double.  *)
(***************************************************************************)
HavTable ==
  <<0, 76152, 304586, 685232, 1217974, 1902650, 2739052, 3726924,
    4865965, 6155829, 7596123, 9186408, 10926199, 12814967, 14852136, 17037086,
    19369152, 21847622, 24471741, 27240712, 30153689, 33209786, 36408072, 39747573,
    43227271, 46846106, 50602976, 54496737, 58526203, 62690146, 66987298, 71416349,
    75975951, 80664716, 85481213, 90423977, 95491502, 100682244, 105994623, 111427019,
    116977778, 122645209, 128427587, 134323149, 140330099, 146446609, 152670814, 159000819,
    165434696, 171970485, 178606195, 185339804, 192169262, 199092488, 206107373, 213211781,
    220403548, 227680482, 235040367, 242480962, 249999999, 257595189, 265264218, 273004750,
    280814426, 288690869, 296631678, 304634435, 312696703, 320816025, 328989928, 337215922,
    345491502, 353814147, 362181322, 370590477, 379039052, 387524472, 396044154, 404595502,
    413175911, 421782767, 430413449, 439065328, 447735768, 456422128, 465121763, 473832021,
    482550251, 491273796, 499999999, 508726203, 517449748, 526167978, 534878236, 543577871,
    552264231, 560934671, 569586550, 578217232, 586824088, 595404497, 603955845, 612475527,
    620960947, 629409522, 637818677, 646185852, 654508497, 662784077, 671010071, 679183974,
    687303296, 695365564, 703368321, 711309130, 719185573, 726995249, 734735781, 742404810,
    749999999, 757519037, 764959632, 772319517, 779596451, 786788218, 793892626, 800907511,
    807830737, 814660195, 821393804, 828029514, 834565303, 840999180, 847329185, 853553390,
    859669900, 865676850, 871572412, 877354790, 883022221, 888572980, 894005376, 899317755,
    904508497, 909576022, 914518786, 919335283, 924024048, 928583650, 933012701, 937309853,
    941473796, 945503262, 949397023, 953153893, 956772728, 960252426, 963591927, 966790213,
    969846310, 972759287, 975528258, 978152377, 980630847, 982962913, 985147863, 987185032,
    989073800, 990813591, 992403876, 993844170, 995134034, 996273075, 997260947, 998097349,
    998782025, 999314767, 999695413, 999923847, 1000000000, 999923847, 999695413, 999314767,
    998782025, 998097349, 997260947, 996273075, 995134034, 993844170, 992403876, 990813591,
    989073800, 987185032, 985147863, 982962913, 980630847, 978152377, 975528258, 972759287,
    969846310, 966790213, 963591927, 960252426, 956772728, 953153893, 949397023, 945503262,
    941473796, 937309853, 933012701, 928583650, 924024048, 919335283, 914518786, 909576022,
    904508497, 899317755, 894005376, 888572980, 883022221, 877354790, 871572412, 865676850,
    859669900, 853553390, 847329185, 840999180, 834565303, 828029514, 821393804, 814660195,
    807830737, 800907511, 793892626, 786788218, 779596451, 772319517, 764959632, 757519037,
    750000000, 742404810, 734735781, 726995249, 719185573, 711309130, 703368321, 695365564,
    687303296, 679183974, 671010071, 662784077, 654508497, 646185852, 637818677, 629409522,
    620960947, 612475527, 603955845, 595404497, 586824088, 578217232, 569586550, 560934671,
    552264231, 543577871, 534878236, 526167978, 517449748, 508726203, 500000000, 491273796,
    482550251, 473832021, 465121763, 456422128, 447735768, 439065328, 430413449, 421782767,
    413175911, 404595502, 396044154, 387524472, 379039052, 370590477, 362181322, 353814147,
    345491502, 337215922, 328989928, 320816025, 312696703, 304634435, 296631678, 288690869,
    280814426, 273004750, 265264218, 257595189, 249999999, 242480962, 235040367, 227680482,
    220403548, 213211781, 206107373, 199092488, 192169262, 185339804, 178606195, 171970485,
    165434696, 159000819, 152670814, 146446609, 140330099, 134323149, 128427587, 122645209,
    116977778, 111427019, 105994623, 100682244, 95491502, 90423977, 85481213, 80664716,
    75975951, 71416349, 66987298, 62690146, 58526203, 54496737, 50602976, 46846106,
    43227271, 39747573, 36408072, 33209786, 30153689, 27240712, 24471741, 21847622,
    19369152, 17037086, 14852136, 12814967, 10926199, 9186408, 7596123, 6155829,
    4865965, 3726924, 2739052, 1902650, 1217974, 685232, 304586, 76152,
    0>>

\* EARTH_RADIUS_M * pi / 180, in metres
MetersPerDegree == 111195

\* 10^4 * cos of an angle in whole degrees
CosDeg(x) ==
  LET m == Abs(x) % 360
      f == IF m > 180 THEN 360 - m ELSE m
  IN  IF f <= 90 THEN CosTable[2 * f + 1] ELSE -CosTable[2 * (180 - f) + 1]

\* mutant: the angle is not halved
C17_NotHalved(x) == HavTable[((2 * Abs(x)) % 360) + 1]

\* 10^9 * sin(x / 2) ** 2
Hav(x) == HavTable[(Abs(x) % 360) + 1]

\* 2 * atan2(sqrt(a), sqrt(max(0, 1 - a))) in whole degrees, rounded down
CentralAngle(a) == Cardinality({d \in 1..180 : HavTable[d + 1] <= a})

\* mutant: the second point is read as (lon2, lat2)
C18_SwappedSecond(lat1, lon1, lat2, lon2) ==
  LET a == Hav(lon2 - lat1)
           + ((CosDeg(lat1) * CosDeg(lon2)) \div 10^4)
               * (Hav(lat2 - lon1) \div 10^4)
  IN  MetersPerDegree * CentralAngle(a)

\* lines 10-16
haversine_m(lat1, lon1, lat2, lon2) ==
  LET a == Hav(lat2 - lat1)
           + ((CosDeg(lat1) * CosDeg(lat2)) \div 10^4)
               * (Hav(lon2 - lon1) \div 10^4)
  IN  MetersPerDegree * CentralAngle(a)

(***************************************************************************)
(* The tile math of the entrypoint package (src/entrypoint/src/geo.py).    *)
(* An angle is a whole number of quarter micro-degrees.  A fractional tile *)
(* coordinate at zoom z is a whole number of units of 2^(z - 29) tile, so  *)
(* that the factor 2.0 ** z of the source, which is exact in floats,       *)
(* changes the unit and not the number.  Results are rounded to the        *)
(* nearest unit.                                                           *)
(***************************************************************************)
AnglesPerDegree == 4000000

WorldUnits == 2^29

\* << floor(r * b / c), (r * b) mod c >> for 0 <= r < c < 2^20 and b >= 0,
\* without forming the product: b is taken ten bits at a time
RECURSIVE MulMod(_, _, _)
MulMod(r, b, c) ==
  IF b = 0
  THEN << 0, 0 >>
  ELSE LET h == MulMod(r, b \div 1024, c)
           t == h[2] * 1024 + r * (b % 1024)
       IN  << h[1] * 1024 + (t \div c), t % c >>

\* << floor(a * b / c), (a * b) mod c >> for a, b >= 0 and 0 < c < 2^20
MulDiv(a, b, c) ==
  LET m == MulMod(a % c, b, c)
  IN  << (a \div c) * b + m[1], m[2] >>

\* a * b / c rounded to the nearest whole number
RoundedMulDiv(a, b, c) ==
  LET m == MulDiv(a, b, c)
  IN  m[1] + (IF 2 * m[2] >= c THEN 1 ELSE 0)

\* line 11: (lon + 180.0) / 360.0 * 2^z
geo_lon_to_xtile(lon, z) ==
  RoundedMulDiv(lon + 180 * AnglesPerDegree, WorldUnits \div 2^11,
                (360 * AnglesPerDegree) \div 2^11)

\* line 20: x_tile / 2^z * 360.0 - 180.0
tile_to_lon(x_tile, z) ==
  RoundedMulDiv(x_tile, (360 * AnglesPerDegree) \div 2^11,
                WorldUnits \div 2^11) - 180 * AnglesPerDegree

\* Lines 15-16 and 24-25 at sample latitudes, evaluated in IEEE double as
\* the source does: for the latitude lat (in angle units),
\*   y    = round(2^29 * lat_to_ytile(lat / 4000000, 0))
\*   back = round(4000000 * tile_to_lat(y / 2^29, 0))
\* The samples are -89.9999995, -89.999999, -85.0511285, -60, -33.7654325,
\* 0, 48.8566, 48.857 and 85.0511285 degrees.
GeoTable ==
  { [lat |-> -359999998, y |-> 1808322322, back |-> -359999993],
    [lat |-> -359999996, y |-> 1867548740, back |-> -359999997],
    [lat |-> -340204514, y |-> 536870907,  back |-> -340204514],
    [lat |-> -240000000, y |-> 380963792,  back |-> -240000000],
    [lat |-> -135061730, y |-> 321986531,  back |-> -135061730],
    [lat |-> 0,          y |-> 268435456,  back |-> 0],
    [lat |-> 195426400,  y |-> 184698843,  back |-> 195426399],
    [lat |-> 195428000,  y |-> 184697936,  back |-> 195428000],
    [lat |-> 340204514,  y |-> 5,          back |-> 340204514] }

\* line 16 at the south pole: tan(lat_rad) + 1.0 / cos(lat_rad) is 0.0 in
\* doubles and math.log raises ValueError
lat_to_ytile_raises(lat) == lat = -90 * AnglesPerDegree

\* lines 15-16
geo_lat_to_ytile(lat, z) == (CHOOSE r \in GeoTable : r.lat = lat).y

\* lines 24-25, at the tabulated ordinate at or next below y_tile (the
\* lowest one for a y_tile below them all)
tile_to_lat(y_tile, z) ==
  LET below == {r \in GeoTable : r.y <= y_tile}
      from  == IF below = {} THEN GeoTable ELSE below
      pick  == IF below = {}
               THEN CHOOSE r \in from : \A q \in from : r.y <= q.y
               ELSE CHOOSE r \in from : \A q \in from : q.y <= r.y
  IN  pick.back

\* the number of tile units in a pixel at zoom z: tile_size pixels per tile
PxScale(z) == (WorldUnits \div 2^z) \div TileSize

\* lines 38-50; a pixel coordinate is a whole number of 1 / PxScale(z) pixel
latlon_to_pixel_xy_in_image(lat, lon, center_lat, center_lon, z, img_size_px) ==
  LET x  == geo_lon_to_xtile(lon, z)
      y  == geo_lat_to_ytile(lat, z)
      cx == geo_lon_to_xtile(center_lon, z)
      cy == geo_lat_to_ytile(center_lat, z)
      dx_tiles == x - cx
      dy_tiles == y - cy
  IN  [px |-> (img_size_px * PxScale(z)) \div 2 + dx_tiles,
       py |-> (img_size_px * PxScale(z)) \div 2 + dy_tiles]

\* lines 62-73
pixel_xy_to_latlon_in_image(px, py, center_lat, center_lon, z, img_size_px) ==
  LET cx == geo_lon_to_xtile(center_lon, z)
      cy == geo_lat_to_ytile(center_lat, z)
      dx_tiles == px - (img_size_px * PxScale(z)) \div 2
      dy_tiles == py - (img_size_px * PxScale(z)) \div 2
      x  == cx + dx_tiles
      y  == cy + dy_tiles
  IN  [lat |-> tile_to_lat(y, z), lon |-> tile_to_lon(x, z)]

(***************************************************************************)
(* Bounds of the model.                                                    *)
(***************************************************************************)
\* significant bits that hold every whole number of degrees exactly (the
\* distance cases; a double has 53)
WideBits == 20

\* width and height, in pixels, of the images of the distance cases
DistSize == 4

\* significant bits of a float in the interpolation cases
FloatBits == 3

\* corner coordinates of the interpolation cases: up to LerpMax double steps
\* of the grid for a longitude, half as many for a latitude
LerpMax == 9

\* addresses given to the batch tool
NumAddresses == 3

\* a stitch of more tiles than this is entered but not followed further
MaxTiles == 4

\* canvases of the crop cases: 1..MaxCanvasTiles tiles per axis
MaxCanvasTiles == 2

\* crop coordinates lie within CoordSlack pixels of a canvas edge or tile seam
CoordSlack == 1

\* bboxes of the tile-range cases: corners on a grid of GridPoints points per
\* axis (spanning the whole globe), each also shifted by one degree
GridPoints == 6

(***************************************************************************)
(* State.                                                                  *)
(***************************************************************************)
VARIABLES
  pc,         \* where the invocation stands
  entry,      \* the entry point that was invoked
  args,       \* the caller's arguments
  req,        \* the arguments save_satellite_bbox received
  call,       \* the arguments fetch_satellite_bbox received
  outPath,    \* the file save_satellite_bbox writes to
  exportIdx,  \* try_arcgis_export: the mirror of the next loop iteration
  exportLog,  \* the export requests issued: <<[mirror, outcome], ...>>
  data,       \* the bytes fetch_satellite_bbox holds
  st,         \* stitch_tiles' locals
  pasted,     \* the pastes into the composite canvas: {[x, y, px, py], ...}
  tileLog,    \* the tile requests issued: <<[x, y, mirror, ok], ...>>
  error,      \* the exception that is propagating, or "none"
  files,      \* file system: path -> content
  dirs,       \* directories made by os.makedirs
  net,        \* number of network requests issued
  cropCase,   \* a case of the crop clamp (SpecCrop)
  tileCase,   \* a case of the tile index range (SpecTiles)
  batch,      \* main of addresses_to_satellite.py: the loop over addresses
  calls,      \* concurrent fetch_satellite_bbox calls: the locals of each
  heap        \* the objects the concurrent calls refer to

vars ==
  << pc, entry, args, req, call, outPath, exportIdx, exportLog, data, st,
     pasted, tileLog, error, files, dirs, net, cropCase, tileCase, batch,
     calls, heap >>

\* the state of the batch loop and of the concurrent calls
loopVars == << batch, calls, heap >>

pipelineVars ==
  << pc, entry, args, req, call, outPath, exportIdx, exportLog, data, st,
     pasted, tileLog, error, files, dirs, net >>

Entries == {"wrapper", "cli", "batch", "save", "core"}

\* the image bytes a call holds: which strategy made them and their pixel size
NoData == [src |-> "none", w |-> 0, h |-> 0]

NoCall ==
  [made |-> FALSE, south |-> 0, west |-> 0, north |-> 0, east |-> 0,
   width |-> 0, height |-> 0, out |-> "none"]

NoStitch ==
  [z |-> 0, x_min |-> 0, x_max |-> 0, y_min |-> 0, y_max |-> 0,
   tx |-> 0, ty |-> 0, mirror |-> 0, last_exc |-> FALSE]

NoCrop ==
  [phase |-> "none", W |-> 0, H |-> 0, left |-> 0, top |-> 0,
   right |-> 0, bottom |-> 0, rect |-> << 0, 0, 0, 0 >>]

NoTileCase ==
  [phase |-> "none", south |-> 0, west |-> 0, north |-> 0, east |-> 0,
   target |-> 0, z |-> 0, x_min |-> 0, x_max |-> 0, y_min |-> 0, y_max |-> 0]

Paths == {"out", "cache", "json"}

\* the file system before the invocation: the output PNG (and, for the batch
\* tool, its metadata JSON) may be there from an earlier run
InitFiles(a) ==
  [p \in Paths |->
     IF a.exists /\ a.out = "given" /\ p \in {"out", "json"} THEN "old" ELSE "absent"]

(***************************************************************************)
(* Inputs.                                                                 *)
(***************************************************************************)
PipeLats == {0, 1}

PipeLons == {-1, 0, 1}

PipeSizes == {0, TileSize, MaxImageSize + 1}

\* geocoder bboxes of the batch tool: geocode_address returns them ordered
BatchLats == {0, 10, 20}

BatchLons == {0, 10, 20}

ArgsOf(e) ==
  IF e = "batch"
  THEN { a \in
           { [made |-> TRUE, south |-> s, west |-> w, north |-> n, east |-> ea,
              width |-> wd, height |-> ht, out |-> "given", exists |-> ex] :
               s \in BatchLats, n \in BatchLats, w \in BatchLons,
               ea \in BatchLons, wd \in PipeSizes, ht \in PipeSizes,
               ex \in BOOLEAN } :
           a.south < a.north /\ a.west < a.east }
  ELSE { [made |-> TRUE, south |-> s, west |-> w, north |-> n, east |-> ea,
          width |-> wd, height |-> ht, out |-> o, exists |-> ex] :
           s \in PipeLats, n \in PipeLats, w \in PipeLons, ea \in PipeLons,
           wd \in PipeSizes, ht \in PipeSizes,
           o \in (IF e = "core" THEN {"none"} ELSE {"none", "given"}),
           ex \in (IF e = "core" THEN {FALSE} ELSE BOOLEAN) }

CallOf(a) ==
  [made |-> TRUE, south |-> a.south, west |-> a.west, north |-> a.north,
   east |-> a.east, width |-> a.width, height |-> a.height, out |-> a.out]


\* whether the output file was there before: only a given path can be
ValidArgs(a) == a.out = "given" \/ ~a.exists

(***************************************************************************)
(* Helpers of the callers.                                                 *)
(***************************************************************************)
\* max(1, min(4096, v)): fetch_satellite_bbox.py main and the batch main
ClampSize(v) == Max(1, Min(MaxImageSize, v))

\* tenths of the default --pad ratio 0.30
PadTenths == 3

normalize_bbox(south, west, north, east) ==
  << Min(south, north), Min(west, east), Max(south, north), Max(west, east) >>

\* pad_bbox with pad_ratio = PadTenths / 10.  The floor max(1e-8, e - w) is
\* below the model's resolution: the batch inputs are not degenerate and
\* their extents are multiples of 10 degrees, so the pads are whole degrees.
pad_bbox(south, west, north, east) ==
  LET b      == normalize_bbox(south, west, north, east)
      width  == b[4] - b[2]
      height == b[3] - b[1]
      pad_x  == (width * PadTenths) \div 10
      pad_y  == (height * PadTenths) \div 10
  IN  << Max(-90, b[1] - pad_y), Max(-180, b[2] - pad_x),
         Min(90, b[3] + pad_y), Min(180, b[4] + pad_x) >>

\* no batch loop and no concurrent calls are running
NoBatch == [phase |-> "none"]

NoCalls == << >>

NoHeap == [phase |-> "none"]

LoopIdle == batch = NoBatch /\ calls = NoCalls /\ heap = NoHeap

(***************************************************************************)
(* Init: one invocation of one entry point.  For "save" and "core" the     *)
(* caller is outside the repository and the state is the one at the entry  *)
(* of save_satellite_bbox, resp. fetch_satellite_bbox.                     *)
(***************************************************************************)
PipeInit ==
  /\ entry \in Entries
  /\ args \in {a \in ArgsOf(entry) : ValidArgs(a)}
  /\ req = IF entry = "save" THEN CallOf(args) ELSE NoCall
  /\ call = IF entry = "core" THEN CallOf(args) ELSE NoCall
  /\ pc = CASE entry = "save" -> "Save"
            [] entry = "core" -> "TryingDirect"
            [] OTHER -> "Start"
  /\ outPath = "none"
  /\ exportIdx = 1
  /\ exportLog = << >>
  /\ data = NoData
  /\ st = NoStitch
  /\ pasted = {}
  /\ tileLog = << >>
  /\ error = "none"
  /\ files = InitFiles(args)
  /\ dirs = {}
  /\ net = 0

Init ==
  /\ PipeInit
  /\ LoopIdle
  /\ cropCase = NoCrop
  /\ tileCase = NoTileCase

(***************************************************************************)
(* Entry points.                                                           *)
(***************************************************************************)
\* fetch_satellite_bbox.py main: the bbox check, the clamp, the call
WrapperMain ==
  /\ pc = "Start" /\ entry = "wrapper"
  /\ IF ~(args.south < args.north /\ args.west < args.east)
     THEN /\ pc' = "Rejected"
          /\ req' = req
     ELSE /\ pc' = "Save"
          /\ req' = [CallOf(args) EXCEPT !.width = ClampSize(args.width),
                                         !.height = ClampSize(args.height)]
  /\ UNCHANGED << entry, args, call, outPath, exportIdx, exportLog, data, st,
                  pasted, tileLog, error, files, dirs, net, cropCase, tileCase, loopVars >>

\* satdist CLI: cmd_fetch hands the parsed arguments on as they are
cmd_fetch ==
  /\ pc = "Start" /\ entry = "cli"
  /\ pc' = "Save"
  /\ req' = CallOf(args)
  /\ UNCHANGED << entry, args, call, outPath, exportIdx, exportLog, data, st,
                  pasted, tileLog, error, files, dirs, net, cropCase, tileCase, loopVars >>

\* addresses_to_satellite.py main, one address: makedirs(out_dir), the
\* skip of an existing PNG, the geocoding request
BatchMain ==
  /\ pc = "Start" /\ entry = "batch"
  /\ dirs' = dirs \cup {"out_dir"}
  /\ IF files["out"] # "absent"
     THEN pc' = "Skipped" /\ net' = net
     ELSE /\ net' = net + 1
          /\ \E ok \in BOOLEAN : pc' = IF ok THEN "Geocoded" ELSE "GeocodeFailed"
  /\ UNCHANGED << entry, args, req, call, outPath, exportIdx, exportLog, data,
                  st, pasted, tileLog, error, files, cropCase, tileCase, loopVars >>

\* save_image_for_address up to its call of save_satellite_bbox, with the
\* sizes main clamps
save_image_for_address ==
  /\ pc = "Geocoded"
  /\ LET p == pad_bbox(args.south, args.west, args.north, args.east)
     IN  req' = [made |-> TRUE, south |-> p[1], west |-> p[2], north |-> p[3],
                 east |-> p[4], width |-> ClampSize(args.width),
                 height |-> ClampSize(args.height), out |-> "given"]
  /\ dirs' = dirs \cup {"out_dir"}
  /\ pc' = "Save"
  /\ UNCHANGED << entry, args, call, outPath, exportIdx, exportLog, data, st,
                  pasted, tileLog, error, files, net, cropCase, tileCase, loopVars >>

\* save_satellite_bbox up to its call of fetch_satellite_bbox: with no out
\* path the cache directory is made and the file name generated
save_satellite_bbox ==
  /\ pc = "Save"
  /\ IF req.out = "none"
     THEN dirs' = dirs \cup {"config/cache"} /\ outPath' = "cache"
     ELSE dirs' = dirs /\ outPath' = "out"
  /\ call' = [req EXCEPT !.out = "none"]
  /\ pc' = "TryingDirect"
  /\ UNCHANGED << entry, args, req, exportIdx, exportLog, data, st, pasted,
                  tileLog, error, files, net, cropCase, tileCase, loopVars >>

(***************************************************************************)
(* try_arcgis_export.  A request to a mirror ends in one of:               *)
(*   "transport" urlopen raised (connection error, timeout, HTTP error)    *)
(*   "nonimage"  a response whose Content-Type does not contain "image"    *)
(*   "readfail"  a response with an image Content-Type whose resp.read()   *)
(*               raised                                                    *)
(*   "image"     a response with an image Content-Type whose body was read *)
(* The body is whatever the mirror sent; the code decodes none of it, so   *)
(* its pixel size is the mirror's choice: the requested size, or the       *)
(* service's own maximum.                                                  *)
(***************************************************************************)
ExportOutcomes == {"image", "readfail", "nonimage", "transport"}

ExportFailures == {"readfail", "nonimage", "transport"}

ExportBodies(c) ==
  { [src |-> "export", w |-> c.width, h |-> c.height],
    [src |-> "export", w |-> MaxImageSize, h |-> MaxImageSize] }

\* mutant: the read of the body is outside the try, so its failure is raised
C5_ReadOutsideTry(outcome) == IF outcome = "readfail" THEN "raise" ELSE "continue"

\* what the loop body does on a failed mirror: "continue" on a non-image
\* response, and "continue" in the handler of every Exception
ExportOnFailure(outcome) == "continue"

\* mutant: a failed mirror is requested again
C4_RetrySameMirror(i) == i

\* the for loop over ARCGIS_EXPORT_URLS
NextMirror(i) == i + 1

try_arcgis_export_request ==
  /\ pc = "TryingDirect"
  /\ exportIdx <= NumExportMirrors
  /\ \E o \in ExportOutcomes, body \in ExportBodies(call) :
       /\ o # "image" => body.w = call.width /\ body.h = call.height
       /\ exportLog' = Append(exportLog, [mirror |-> exportIdx, outcome |-> o])
       /\ net' = net + 1
       /\ IF o = "image"
          THEN /\ data' = body
               /\ pc' = "ExportReturned"
               /\ UNCHANGED << exportIdx, error >>
          ELSE IF ExportOnFailure(o) = "continue"
          THEN /\ exportIdx' = NextMirror(exportIdx)
               /\ UNCHANGED << data, pc, error >>
          ELSE /\ error' = "ExportError"
               /\ pc' = "Failed"
               /\ UNCHANGED << data, exportIdx >>
  /\ UNCHANGED << entry, args, req, call, outPath, st, pasted, tileLog, files,
                  dirs, cropCase, tileCase, loopVars >>

\* the loop is exhausted: return None
try_arcgis_export_none ==
  /\ pc = "TryingDirect"
  /\ exportIdx > NumExportMirrors
  /\ data' = NoData
  /\ pc' = "ExportReturned"
  /\ UNCHANGED << entry, args, req, call, outPath, exportIdx, exportLog, st,
                  pasted, tileLog, error, files, dirs, net, cropCase, tileCase, loopVars >>

(***************************************************************************)
(* fetch_satellite_bbox: stitch if and only if the export returned None.   *)
(***************************************************************************)
\* mutant: the bytes are returned without the test for None
C2_NoFallback(d) == "Fetched"

FetchNext(d) == IF d = NoData THEN "TryingStitch" ELSE "Fetched"

fetch_satellite_bbox ==
  /\ pc = "ExportReturned"
  /\ pc' = FetchNext(data)
  /\ UNCHANGED << entry, args, req, call, outPath, exportIdx, exportLog, data,
                  st, pasted, tileLog, error, files, dirs, net, cropCase,
                  tileCase, loopVars >>

(***************************************************************************)
(* stitch_tiles.                                                           *)
(***************************************************************************)
\* mutant: the latitudes of the two y bounds are swapped
C10_SwappedLat(south, west, north, east, z) ==
  [x_min |-> FloorTile(lon_to_xtile(west, z)),
   x_max |-> FloorTile(lon_to_xtile(east, z)),
   y_min |-> FloorTile(lat_to_ytile(south, z)),
   y_max |-> FloorTile(lat_to_ytile(north, z))]

\* mutant: the maxima are exclusive bounds (the last tile that begins
\* strictly before the east and south edges)
C11_ExclusiveMax(south, west, north, east, z) ==
  [x_min |-> FloorTile(lon_to_xtile(west, z)),
   x_max |-> FloorTile(lon_to_xtile(east, z) - 1),
   y_min |-> FloorTile(lat_to_ytile(north, z)),
   y_max |-> FloorTile(lat_to_ytile(south, z) - 1)]

\* floor of the fractional tile coordinates of the bbox edges: west and
\* north give the minima, east and south the maxima
TileRange(south, west, north, east, z) ==
  [x_min |-> FloorTile(lon_to_xtile(west, z)),
   x_max |-> FloorTile(lon_to_xtile(east, z)),
   y_min |-> FloorTile(lat_to_ytile(north, z)),
   y_max |-> FloorTile(lat_to_ytile(south, z))]

\* mutant: right and bottom are clamped to the canvas only
C9_NoMinExtent(W, H, left, top, right, bottom) ==
  [left |-> Max(0, Min(W - 1, left)), top |-> Max(0, Min(H - 1, top)),
   right |-> Min(W, right), bottom |-> Min(H, bottom)]

\* the clamp of the crop rectangle to a canvas of W x H pixels
CropRect(W, H, left, top, right, bottom) ==
  LET l == Max(0, Min(W - 1, left))
      t == Max(0, Min(H - 1, top))
  IN  [left |-> l, top |-> t,
       right |-> Max(l + 1, Min(W, right)),
       bottom |-> Max(t + 1, Min(H, bottom))]

\* mutant: the crop is resized only when both of its dimensions differ
C13_ResizeIfBoth(cw, ch, width, height) ==
  IF cw # width /\ ch # height
  THEN [src |-> "stitch", w |-> width, h |-> height]
  ELSE [src |-> "stitch", w |-> cw, h |-> ch]

\* the crop is resized when its size differs from the request
Resized(cw, ch, width, height) ==
  IF cw # width \/ ch # height
  THEN [src |-> "stitch", w |-> width, h |-> height]
  ELSE [src |-> "stitch", w |-> cw, h |-> ch]

\* the tiles of the index range, as the nested loops visit them
RangeTiles(s) == {<< x, y >> : x \in s.x_min..s.x_max, y \in s.y_min..s.y_max}

LastTile(s) == s.tx = s.x_max /\ s.ty = s.y_max

\* mutant: the loops are nested the other way round
C22_ColumnMajor(s) ==
  IF s.ty < s.y_max
  THEN [s EXCEPT !.ty = s.ty + 1, !.mirror = 1, !.last_exc = FALSE]
  ELSE [s EXCEPT !.ty = s.y_min, !.tx = s.tx + 1, !.mirror = 1,
                 !.last_exc = FALSE]

\* for ty in range(y_min, y_max + 1): for tx in range(x_min, x_max + 1)
NextTile(s) ==
  IF s.tx < s.x_max
  THEN [s EXCEPT !.tx = s.tx + 1, !.mirror = 1, !.last_exc = FALSE]
  ELSE [s EXCEPT !.tx = s.x_min, !.ty = s.ty + 1, !.mirror = 1,
                 !.last_exc = FALSE]

\* mutant: a tile no mirror served is left out of the canvas
C3_SkipTile == "skip"

\* fetch_tile after its loop over ARCGIS_TILE_URLS: raise
OnTileExhausted == "raise"

\* the zoom, the index range, the canvas, the session.  pick_zoom_for_bbox
\* divides by target_px; Image.new refuses a negative size.
stitch_tiles_begin ==
  /\ pc = "TryingStitch"
  /\ LET target == Max(call.width, call.height)
         z == pick_zoom_for_bbox(call.south, call.west, call.north, call.east,
                                 target)
         r == TileRange(call.south, call.west, call.north, call.east, z)
         tiles_x == r.x_max - r.x_min + 1
         tiles_y == r.y_max - r.y_min + 1
     IN  IF ZoomRaises(target)
         THEN /\ error' = "ZeroDivisionError"
              /\ pc' = "Failed"
              /\ st' = st
         ELSE IF tiles_x < 0 \/ tiles_y < 0
         THEN /\ error' = "ValueError"
              /\ pc' = "Failed"
              /\ st' = st
         ELSE /\ tiles_x * tiles_y <= MaxTiles
              /\ st' = [z |-> z, x_min |-> r.x_min, x_max |-> r.x_max,
                        y_min |-> r.y_min, y_max |-> r.y_max,
                        tx |-> r.x_min, ty |-> r.y_min, mirror |-> 1,
                        last_exc |-> FALSE]
              /\ pc' = IF tiles_x = 0 \/ tiles_y = 0 THEN "Crop" ELSE "Tiles"
              /\ error' = error
  /\ UNCHANGED << entry, args, req, call, outPath, exportIdx, exportLog, data,
                  pasted, tileLog, files, dirs, net, cropCase, tileCase, loopVars >>

(***************************************************************************)
(* fetch_tile, one request of its loop.  The request ends in one of:       *)
(*   "ok"   status 200, Content-Type image/..., the content decodes        *)
(*   "exc"  session.get or Image.open raised: last_exc is set              *)
(*   "bad"  a status other than 200 or a Content-Type that is no image:    *)
(*          nothing is raised and the loop goes on                         *)
(* A tile that was fetched is pasted at ((tx - x_min)*256, (ty - y_min)*256).*)
(***************************************************************************)
TileOutcomes == {"ok", "exc", "bad"}

\* mutant: a tile that was not served is requested again from the first
\* mirror
C23_RestartMirrors(m) == 1

\* for tmpl in ARCGIS_TILE_URLS: the template after the one that failed
NextTileMirror(m) == m + 1

fetch_tile ==
  /\ pc = "Tiles"
  /\ \E o \in TileOutcomes :
       LET exc == st.last_exc \/ o = "exc"
           moveOn == /\ pc' = IF LastTile(st) THEN "Crop" ELSE "Tiles"
                     /\ st' = IF LastTile(st) THEN st ELSE NextTile(st)
                     /\ error' = error
       IN  /\ tileLog' = Append(tileLog, [x |-> st.tx, y |-> st.ty,
                                          mirror |-> st.mirror,
                                          ok |-> o = "ok"])
           /\ net' = net + 1
           /\ IF o = "ok"
              THEN /\ pasted' = pasted \cup
                        {[x |-> st.tx, y |-> st.ty,
                          px |-> (st.tx - st.x_min) * TileSize,
                          py |-> (st.ty - st.y_min) * TileSize]}
                   /\ moveOn
              ELSE /\ pasted' = pasted
                   /\ IF st.mirror < NumTileMirrors
                      THEN /\ st' = [st EXCEPT
                                       !.mirror = NextTileMirror(st.mirror),
                                       !.last_exc = exc]
                           /\ UNCHANGED << pc, error >>
                      ELSE IF OnTileExhausted = "raise"
                      THEN /\ error' = IF exc THEN "TileError" ELSE "RuntimeError"
                           /\ pc' = "Failed"
                           /\ st' = [st EXCEPT !.last_exc = exc]
                      ELSE moveOn
  /\ UNCHANGED << entry, args, req, call, outPath, exportIdx, exportLog, data,
                  files, dirs, cropCase, tileCase, loopVars >>

\* the crop rectangle, the crop, the resize (which refuses a size <= 0), the
\* PNG encoding
stitch_tiles_crop ==
  /\ pc = "Crop"
  /\ LET W  == (st.x_max - st.x_min + 1) * TileSize
         H  == (st.y_max - st.y_min + 1) * TileSize
         wn == lonlat_to_global_px(call.west, call.north, st.z)
         es == lonlat_to_global_px(call.east, call.south, st.z)
         r  == CropRect(W, H, RoundLocal(wn[1], st.x_min),
                        RoundLocal(wn[2], st.y_min),
                        RoundLocal(es[1], st.x_min),
                        RoundLocal(es[2], st.y_min))
         cw == r.right - r.left
         ch == r.bottom - r.top
     IN  IF (cw # call.width \/ ch # call.height)
            /\ (call.width <= 0 \/ call.height <= 0)
         THEN /\ error' = "ValueError"
              /\ pc' = "Failed"
              /\ data' = data
         ELSE /\ data' = Resized(cw, ch, call.width, call.height)
              /\ pc' = "Fetched"
              /\ error' = error
  /\ UNCHANGED << entry, args, req, call, outPath, exportIdx, exportLog, st,
                  pasted, tileLog, files, dirs, net, cropCase, tileCase, loopVars >>

(***************************************************************************)
(* After the fetch.                                                        *)
(***************************************************************************)
\* fetch_satellite_bbox returns the bytes to a caller of the core
fetch_return ==
  /\ pc = "Fetched" /\ entry = "core"
  /\ pc' = "Done"
  /\ UNCHANGED << entry, args, req, call, outPath, exportIdx, exportLog, data,
                  st, pasted, tileLog, error, files, dirs, net, cropCase,
                  tileCase, loopVars >>

\* save_satellite_bbox after the fetch: makedirs, open, write
save_write ==
  /\ pc = "Fetched" /\ entry # "core"
  /\ dirs' = dirs \cup {"dirname(out)"}
  /\ files' = [files EXCEPT ![outPath] = "png"]
  /\ pc' = IF entry = "batch" THEN "Saved" ELSE "Done"
  /\ UNCHANGED << entry, args, req, call, outPath, exportIdx, exportLog, data,
                  st, pasted, tileLog, error, net, cropCase, tileCase, loopVars >>

\* save_image_for_address after save_satellite_bbox: the optional upscale
\* rewrites the PNG when OpenCV and a model file are there; the metadata
\* JSON is written
save_metadata ==
  /\ pc = "Saved"
  /\ \E upscaled \in BOOLEAN :
       files' = [files EXCEPT !["out"] = IF upscaled THEN "upscaled" ELSE @,
                              !["json"] = "meta"]
  /\ pc' = "Done"
  /\ UNCHANGED << entry, args, req, call, outPath, exportIdx, exportLog, data,
                  st, pasted, tileLog, error, dirs, net, cropCase, tileCase, loopVars >>

\* mutant: the output file is opened before the fetch
C7_OpenBeforeFetch(f, path) ==
  IF path \in Paths THEN [f EXCEPT ![path] = "empty"] ELSE f

\* what an exception raised by fetch_satellite_bbox leaves of the files:
\* save_satellite_bbox opens the file only after the fetch returned, and
\* save_image_for_address writes the metadata only after the save returned
FilesOnError(f, path) == f

\* the exception leaves fetch_satellite_bbox and its callers
propagate ==
  /\ pc = "Failed"
  /\ files' = FilesOnError(files, outPath)
  /\ pc' = "Propagated"
  /\ UNCHANGED << entry, args, req, call, outPath, exportIdx, exportLog, data,
                  st, pasted, tileLog, error, dirs, net, cropCase, tileCase, loopVars >>

Next ==
  \/ WrapperMain
  \/ cmd_fetch
  \/ BatchMain
  \/ save_image_for_address
  \/ save_satellite_bbox
  \/ try_arcgis_export_request
  \/ try_arcgis_export_none
  \/ fetch_satellite_bbox
  \/ stitch_tiles_begin
  \/ fetch_tile
  \/ stitch_tiles_crop
  \/ fetch_return
  \/ save_write
  \/ save_metadata
  \/ propagate

Spec == Init /\ [][Next]_vars

(***************************************************************************)
(* SpecCore: one call of fetch_satellite_bbox by a caller outside the      *)
(* repository, followed to its return or to the exception it raises.  The  *)
(* call is one sequential process and every request ends (urlopen has      *)
(* timeout=20, session.get has timeout=15), so a step that is possible is   *)
(* eventually taken.                                                       *)
(***************************************************************************)
CoreInit == Init /\ entry = "core"

CoreNext ==
  \/ try_arcgis_export_request
  \/ try_arcgis_export_none
  \/ fetch_satellite_bbox
  \/ stitch_tiles_begin
  \/ fetch_tile
  \/ stitch_tiles_crop
  \/ fetch_return
  \/ propagate

SpecCore == CoreInit /\ [][CoreNext]_vars /\ WF_vars(CoreNext)

(***************************************************************************)
(* SpecCrop: the crop clamp of stitch_tiles as a function, applied to       *)
(* canvases of whole tiles and to rounded corner coordinates in, on and     *)
(* beyond the canvas.                                                       *)
(***************************************************************************)
\* the pipeline does not run in the function specifications
PipeIdle ==
  /\ pc = "Pure"
  /\ entry = "core"
  /\ args = [made |-> FALSE, south |-> 0, west |-> 0, north |-> 0, east |-> 0,
             width |-> 0, height |-> 0, out |-> "none", exists |-> FALSE]
  /\ req = NoCall
  /\ call = NoCall
  /\ outPath = "none"
  /\ exportIdx = 1
  /\ exportLog = << >>
  /\ data = NoData
  /\ st = NoStitch
  /\ pasted = {}
  /\ tileLog = << >>
  /\ error = "none"
  /\ files = [p \in Paths |-> "absent"]
  /\ dirs = {}
  /\ net = 0

CanvasSizes == {k * TileSize : k \in 1..MaxCanvasTiles}

\* coordinates a tile away from the canvas and within CoordSlack of its edges
CropCoords(size) ==
  {-TileSize, size + TileSize}
    \cup {d : d \in -CoordSlack..CoordSlack}
    \cup {size + d : d \in -CoordSlack..CoordSlack}

CropInit ==
  /\ PipeIdle
  /\ LoopIdle
  /\ \E W \in CanvasSizes, H \in CanvasSizes :
       \E l \in CropCoords(W), r \in CropCoords(W),
          t \in CropCoords(H), b \in CropCoords(H) :
         cropCase = [phase |-> "in", W |-> W, H |-> H, left |-> l, top |-> t,
                     right |-> r, bottom |-> b, rect |-> << 0, 0, 0, 0 >>]
  /\ tileCase = NoTileCase

\* lines 133-136 applied to the case
CropStep ==
  /\ cropCase.phase = "in"
  /\ LET r == CropRect(cropCase.W, cropCase.H, cropCase.left, cropCase.top,
                       cropCase.right, cropCase.bottom)
     IN  cropCase' = [cropCase EXCEPT
                        !.phase = "out",
                        !.rect = << r.left, r.top, r.right, r.bottom >>]
  /\ UNCHANGED << pipelineVars, tileCase, loopVars >>

SpecCrop == CropInit /\ [][CropStep]_vars

(***************************************************************************)
(* SpecTiles: the zoom and the tile index range of stitch_tiles as a        *)
(* function of a valid bbox and a target size.                              *)
(***************************************************************************)
\* GridPoints latitudes from -90 to 90, each also one degree further north,
\* and the latitudes around the equator and the Mercator clamp
GridLats ==
  ({-90 + (180 * k) \div (GridPoints - 1) + d : k \in 0..(GridPoints - 1),
                                               d \in 0..1}
     \cup {-86, -85, 0, 85, 86}) \cap (-90..90)

GridLons ==
  {-180 + (360 * k) \div (GridPoints - 1) + d : k \in 0..(GridPoints - 1),
                                               d \in 0..1} \cap (-180..180)

\* max(width, height) of the requests
GridTargets == {1, TileSize, MaxImageSize}

TileInit ==
  /\ PipeIdle
  /\ LoopIdle
  /\ cropCase = NoCrop
  /\ \E s \in GridLats, n \in GridLats, w \in GridLons, e \in GridLons,
        t \in GridTargets :
       /\ s < n /\ w < e
       /\ tileCase = [phase |-> "in", south |-> s, west |-> w, north |-> n,
                      east |-> e, target |-> t, z |-> 0, x_min |-> 0,
                      x_max |-> 0, y_min |-> 0, y_max |-> 0]

\* lines 76-94 applied to the case
TileStep ==
  /\ tileCase.phase = "in"
  /\ LET z == pick_zoom_for_bbox(tileCase.south, tileCase.west, tileCase.north,
                                 tileCase.east, tileCase.target)
         r == TileRange(tileCase.south, tileCase.west, tileCase.north,
                        tileCase.east, z)
     IN  tileCase' = [tileCase EXCEPT !.phase = "out", !.z = z,
                                      !.x_min = r.x_min, !.x_max = r.x_max,
                                      !.y_min = r.y_min, !.y_max = r.y_max]
  /\ UNCHANGED << pipelineVars, cropCase, loopVars >>

SpecTiles == TileInit /\ [][TileStep]_vars

(***************************************************************************)
(* SpecZeroArea: stitch_tiles without its network part, as a function of a *)
(* bbox of zero area (a south = north and/or west = east pair, the other   *)
(* pair in order) and a request of target x target pixels: the zoom and    *)
(* the tile range (TileStep), then the canvas, the crop and the resize.    *)
(***************************************************************************)
ZeroAreaInit ==
  /\ PipeIdle
  /\ LoopIdle
  /\ cropCase = NoCrop
  /\ \E s \in GridLats, n \in GridLats, w \in GridLons, e \in GridLons,
        t \in GridTargets :
       /\ s <= n /\ w <= e
       /\ s = n \/ w = e
       /\ tileCase = [phase |-> "in", south |-> s, west |-> w, north |-> n,
                      east |-> e, target |-> t, z |-> 0, x_min |-> 0,
                      x_max |-> 0, y_min |-> 0, y_max |-> 0]

\* lines 99 and 126-140 applied to the tile range of the case
ZeroAreaCrop ==
  /\ tileCase.phase = "out"
  /\ cropCase.phase = "none"
  /\ LET W  == (tileCase.x_max - tileCase.x_min + 1) * TileSize
         H  == (tileCase.y_max - tileCase.y_min + 1) * TileSize
         wn == lonlat_to_global_px(tileCase.west, tileCase.north, tileCase.z)
         es == lonlat_to_global_px(tileCase.east, tileCase.south, tileCase.z)
         l  == RoundLocal(wn[1], tileCase.x_min)
         t  == RoundLocal(wn[2], tileCase.y_min)
         r  == RoundLocal(es[1], tileCase.x_min)
         b  == RoundLocal(es[2], tileCase.y_min)
         c  == CropRect(W, H, l, t, r, b)
     IN  cropCase' = [phase |-> "out", W |-> W, H |-> H, left |-> l,
                      top |-> t, right |-> r, bottom |-> b,
                      rect |-> << c.left, c.top, c.right, c.bottom >>,
                      out |-> Resized(c.right - c.left, c.bottom - c.top,
                                      tileCase.target, tileCase.target)]
  /\ UNCHANGED << pipelineVars, tileCase, loopVars >>

ZeroAreaNext == TileStep \/ ZeroAreaCrop

SpecZeroArea == ZeroAreaInit /\ [][ZeroAreaNext]_vars

(***************************************************************************)
(* SpecBboxCrop: the same steps of stitch_tiles (the zoom and the tile     *)
(* range, then the canvas, the crop and the resize) for a valid bbox.      *)
(***************************************************************************)
SpecBboxCrop == TileInit /\ [][ZeroAreaNext]_vars

(***************************************************************************)
(* SpecZoom: pick_zoom_for_bbox as a function of a valid bbox and a target *)
(* size >= 1.  The bbox is given by its latitudes and by its width in      *)
(* thousandths of a degree, from the narrowest to the whole globe.         *)
(***************************************************************************)
\* east - west in thousandths of a degree
ZoomWidths == {1, 5, 1000, 45000, 360000}

ZoomInit ==
  /\ PipeIdle
  /\ LoopIdle
  /\ cropCase = NoCrop
  /\ \E s \in GridLats, n \in GridLats, d \in ZoomWidths, t \in GridTargets :
       /\ s < n
       /\ tileCase = [phase |-> "in", south |-> s, north |-> n, dM |-> d,
                      target |-> t, z |-> 0]

\* lines 46-52 applied to the case
ZoomStep ==
  /\ tileCase.phase = "in"
  /\ tileCase' = [tileCase EXCEPT
                    !.phase = "out",
                    !.z = pick_zoom_milli(tileCase.south, tileCase.north,
                                          tileCase.dM, tileCase.target)]
  /\ UNCHANGED << pipelineVars, cropCase, loopVars >>

SpecZoom == ZoomInit /\ [][ZoomStep]_vars

(***************************************************************************)
(* SpecResize: lines 138-140 of stitch_tiles as a function of the size of  *)
(* the crop (at least 1 x 1 after the clamp) and of the requested size.    *)
(***************************************************************************)
\* widths and heights of the crop: one pixel, a tile, a pixel around it, more
CropSizes == {1, TileSize - 1, TileSize, TileSize + 1, 2 * TileSize}

\* requested widths and heights, the one resize refuses included
ResizeRequests == {0, 1, TileSize, MaxImageSize}

ResizeInit ==
  /\ PipeIdle
  /\ LoopIdle
  /\ tileCase = NoTileCase
  /\ \E cw \in CropSizes, ch \in CropSizes,
        w \in ResizeRequests, h \in ResizeRequests :
       cropCase = [phase |-> "in", cw |-> cw, ch |-> ch, width |-> w,
                   height |-> h, out |-> NoData]

\* resize raises ValueError for a size that is not positive
ResizeStep ==
  /\ cropCase.phase = "in"
  /\ LET c == cropCase
     IN  IF (c.cw # c.width \/ c.ch # c.height)
            /\ (c.width <= 0 \/ c.height <= 0)
         THEN cropCase' = [c EXCEPT !.phase = "raised"]
         ELSE cropCase' = [c EXCEPT !.phase = "out",
                                    !.out = Resized(c.cw, c.ch, c.width,
                                                    c.height)]
  /\ UNCHANGED << pipelineVars, tileCase, loopVars >>

SpecResize == ResizeInit /\ [][ResizeStep]_vars

(***************************************************************************)
(* SpecPad: normalize_bbox and pad_bbox with the pad ratio as an argument, *)
(* for the bboxes geocode_address can hand over (a GeoJSON point gives a    *)
(* degenerate one) and the ratios the --pad option accepts (any float).     *)
(* The inputs are whole degrees and the ratio is in tenths.  A coordinate   *)
(* of the result is d tenths of a degree plus n billionths of a degree:     *)
(* the floor max(1e-8, extent) is 10 billionths, far below a tenth.         *)
(***************************************************************************)
Fine(d, n) == [d |-> d, n |-> n]

FineLess(a, b) == a.d < b.d \/ (a.d = b.d /\ a.n < b.n)

FineMax(a, b) == IF FineLess(a, b) THEN b ELSE a

FineMin(a, b) == IF FineLess(a, b) THEN a ELSE b

\* max(1e-8, extent) * pad_ratio for an extent in whole degrees
PadAmount(extent, tenths) ==
  IF extent = 0 THEN Fine(0, tenths) ELSE Fine(extent * tenths, 0)

\* pad_bbox(south, west, north, east, pad_ratio = tenths / 10)
pad_bbox_ratio(south, west, north, east, tenths) ==
  LET b     == normalize_bbox(south, west, north, east)
      pad_x == PadAmount(b[4] - b[2], tenths)
      pad_y == PadAmount(b[3] - b[1], tenths)
  IN  [south |-> FineMax(Fine(-900, 0), Fine(10 * b[1] - pad_y.d, -pad_y.n)),
       west  |-> FineMax(Fine(-1800, 0), Fine(10 * b[2] - pad_x.d, -pad_x.n)),
       north |-> FineMin(Fine(900, 0), Fine(10 * b[3] + pad_y.d, pad_y.n)),
       east  |-> FineMin(Fine(1800, 0), Fine(10 * b[4] + pad_x.d, pad_x.n))]

\* latitudes and longitudes of the geocoder's bbox, in degrees
PadLats == {-90, 0, 10, 90}

PadLons == {-180, 0, 10, 180}

\* --pad values, in tenths: type=float with no range check; the negative
\* ones are left out
PadRatios == {0, PadTenths, 10}

PadInit ==
  /\ PipeIdle
  /\ LoopIdle
  /\ cropCase = NoCrop
  /\ \E s \in PadLats, n \in PadLats, w \in PadLons, e \in PadLons,
        r \in PadRatios :
       tileCase = [phase |-> "in", south |-> s, west |-> w, north |-> n,
                   east |-> e, pad |-> r,
                   out |-> [south |-> Fine(0, 0), west |-> Fine(0, 0),
                            north |-> Fine(0, 0), east |-> Fine(0, 0)]]

\* save_image_for_address, line 196
PadStep ==
  /\ tileCase.phase = "in"
  /\ tileCase' = [tileCase EXCEPT
                    !.phase = "out",
                    !.out = pad_bbox_ratio(tileCase.south, tileCase.west,
                                           tileCase.north, tileCase.east,
                                           tileCase.pad)]
  /\ UNCHANGED << pipelineVars, cropCase, loopVars >>

SpecPad == PadInit /\ [][PadStep]_vars

(***************************************************************************)
(* SpecValidate: the argument checks of the distance functions that take   *)
(* an image size and a bbox (distance.py).                                 *)
(***************************************************************************)
DistanceFunctions ==
  {"pixel_to_lonlat", "distance_between_image_pixels_m",
   "meters_per_pixel_at_center"}

\* lines 29-32: both checks of pixel_to_lonlat
pixel_to_lonlat_raises(width, height, south, west, north, east) ==
  \/ width <= 0 \/ height <= 0
  \/ ~(south < north /\ west < east)

\* lines 53-54: the first call of pixel_to_lonlat raises or neither does
distance_between_image_pixels_m_raises(width, height, south, west, north, east) ==
  pixel_to_lonlat_raises(width, height, south, west, north, east)

\* lines 66-67: the size is checked, the bbox is not
meters_per_pixel_at_center_raises(width, height, south, west, north, east) ==
  width <= 0 \/ height <= 0

ValidateSizes == {-1, 0, 1, 2}

ValidateCoords == {0, 1}

ValidateInit ==
  /\ PipeIdle
  /\ LoopIdle
  /\ cropCase = NoCrop
  /\ \E f \in DistanceFunctions, wd \in ValidateSizes, ht \in ValidateSizes,
        s \in ValidateCoords, n \in ValidateCoords,
        w \in ValidateCoords, e \in ValidateCoords :
       tileCase = [phase |-> "in", fn |-> f, width |-> wd, height |-> ht,
                   south |-> s, west |-> w, north |-> n, east |-> e]

\* one call of the function: it raises ValueError or returns a value
ValidateStep ==
  /\ tileCase.phase = "in"
  /\ LET c == tileCase
         raises ==
           CASE c.fn = "pixel_to_lonlat" ->
                  pixel_to_lonlat_raises(c.width, c.height, c.south, c.west,
                                         c.north, c.east)
             [] c.fn = "distance_between_image_pixels_m" ->
                  distance_between_image_pixels_m_raises(
                    c.width, c.height, c.south, c.west, c.north, c.east)
             [] c.fn = "meters_per_pixel_at_center" ->
                  meters_per_pixel_at_center_raises(
                    c.width, c.height, c.south, c.west, c.north, c.east)
     IN  tileCase' = [c EXCEPT !.phase = IF raises THEN "raised"
                                                   ELSE "returned"]
  /\ UNCHANGED << pipelineVars, cropCase, loopVars >>

SpecValidate == ValidateInit /\ [][ValidateStep]_vars

(***************************************************************************)
(* SpecLerp: pixel_to_lonlat on valid arguments, in floating point.        *)
(***************************************************************************)
\* lines 34-37, in floats of the given number of significant bits.  In the
\* cases u = x / width and v = y / height are exact or their products with
\* the extents are whole numbers of steps.
pixel_to_lonlat(x, y, width, height, south, west, north, east, bits) ==
  LET dx == RoundFloat(east - west, bits)
      dy == RoundFloat(north - south, bits)
      tx == RoundFloat((dx * x) \div width, bits)
      ty == RoundFloat((dy * y) \div height, bits)
  IN  [lon |-> RoundFloat(west + tx, bits),
       lat |-> RoundFloat(north - ty, bits)]

\* the floats among the even numbers of steps up to 2 * m
FloatCoords(m) ==
  {2 * c : c \in {d \in -m..m : RoundFloat(2 * d, FloatBits) = 2 * d}}

LerpSizes == {1, 2}

LerpInit ==
  /\ PipeIdle
  /\ LoopIdle
  /\ cropCase = NoCrop
  /\ \E s \in FloatCoords(LerpMax \div 2), n \in FloatCoords(LerpMax \div 2),
        w \in FloatCoords(LerpMax), e \in FloatCoords(LerpMax),
        wd \in LerpSizes, ht \in LerpSizes :
       \E x \in 0..wd, y \in 0..ht :
         /\ s < n /\ w < e
         /\ tileCase = [phase |-> "in", south |-> s, west |-> w, north |-> n,
                        east |-> e, width |-> wd, height |-> ht, x |-> x,
                        y |-> y, lon |-> 0, lat |-> 0]

LerpStep ==
  /\ tileCase.phase = "in"
  /\ LET c == tileCase
         p == pixel_to_lonlat(c.x, c.y, c.width, c.height, c.south, c.west,
                              c.north, c.east, FloatBits)
     IN  tileCase' = [c EXCEPT !.phase = "out", !.lon = p.lon, !.lat = p.lat]
  /\ UNCHANGED << pipelineVars, cropCase, loopVars >>

SpecLerp == LerpInit /\ [][LerpStep]_vars

(***************************************************************************)
(* SpecDistance: distance_between_image_pixels_m for a fixed valid bbox,   *)
(* a fixed image size and a fixed first pixel, while the second pixel      *)
(* starts on the first and moves away from it along a row or a column.     *)
(* The bboxes are in whole degrees and their extents are multiples of the  *)
(* image size, so every pixel is at a whole number of degrees.             *)
(***************************************************************************)
\* lines 53-55
distance_between_image_pixels_m(x1, y1, x2, y2, width, height, south, west, north, east) ==
  LET p1 == pixel_to_lonlat(x1, y1, width, height, south, west, north, east,
                            WideBits)
      p2 == pixel_to_lonlat(x2, y2, width, height, south, west, north, east,
                            WideBits)
  IN  haversine_m(p1.lat, p1.lon, p2.lat, p2.lon)

DistLats == {-90, -30, 30, 90}

DistLons == {-180, -100, 0, 80, 180}

DistInit ==
  /\ PipeIdle
  /\ LoopIdle
  /\ cropCase = NoCrop
  /\ \E s \in DistLats, n \in DistLats, w \in DistLons, e \in DistLons,
        x \in 0..DistSize, y \in 0..DistSize, ax \in {"row", "column"},
        dir \in {-1, 1} :
       /\ s < n /\ w < e
       /\ tileCase = [phase |-> "in", south |-> s, west |-> w, north |-> n,
                      east |-> e, width |-> DistSize, height |-> DistSize,
                      x1 |-> x, y1 |-> y, x2 |-> x, y2 |-> y, axis |-> ax,
                      dir |-> dir, d |-> 0]

\* the distance for the current pair of pixels
DistOf(c) ==
  distance_between_image_pixels_m(c.x1, c.y1, c.x2, c.y2, c.width, c.height,
                                  c.south, c.west, c.north, c.east)

\* the first call: both pixels are the same point
DistMeasure ==
  /\ tileCase.phase = "in"
  /\ tileCase' = [tileCase EXCEPT !.phase = "out", !.d = DistOf(tileCase)]
  /\ UNCHANGED << pipelineVars, cropCase, loopVars >>

\* the next call: the second pixel is one pixel farther from the first
DistMove ==
  /\ tileCase.phase = "out"
  /\ LET c == tileCase
         m == IF c.axis = "row"
              THEN [c EXCEPT !.x2 = c.x2 + c.dir]
              ELSE [c EXCEPT !.y2 = c.y2 + c.dir]
     IN  /\ m.x2 \in 0..c.width /\ m.y2 \in 0..c.height
         /\ tileCase' = [m EXCEPT !.d = DistOf(m)]
  /\ UNCHANGED << pipelineVars, cropCase, loopVars >>

DistNext == DistMeasure \/ DistMove

SpecDistance == DistInit /\ [][DistNext]_vars

(***************************************************************************)
(* SpecBatch: main of addresses_to_satellite.py, one step per iteration of *)
(* its loop over the addresses.  geocode_address issues one request and    *)
(* returns or raises; save_image_for_address returns or raises (the fetch  *)
(* pipeline above).  batch.events is the sequence of geocoding requests    *)
(* and sleeps, batch.existing the addresses whose PNG is in the out dir,   *)
(* batch.log the iterations of the loop.                                   *)
(***************************************************************************)
\* tenths of a second of the default --delay 1.1
DefaultDelay == 11

\* --delay values, in tenths of a second: the default and a longer one
BatchDelays == {DefaultDelay, 2 * DefaultDelay}

\* --skip-existing is a store_true option whose default is True (line 269):
\* no command line makes it False
C27_NoSkip == FALSE

skip_existing == TRUE

\* the PNG and the metadata JSON of address i in the out dir: "absent", "old"
\* (there before the run) or "new" (written by this run)
BatchFiles(n, pngs, jsons) ==
  [i \in 1..n |-> [png  |-> IF i \in pngs THEN "old" ELSE "absent",
                   json |-> IF i \in jsons THEN "old" ELSE "absent"]]

BatchInit ==
  /\ PipeIdle
  /\ cropCase = NoCrop
  /\ tileCase = NoTileCase
  /\ calls = NoCalls
  /\ heap = NoHeap
  /\ \E n \in 0..NumAddresses, d \in BatchDelays :
       \E ex \in SUBSET (1..n), js \in SUBSET (1..n) :
         batch = [phase |-> "start", n |-> n, delay |-> d, existing |-> ex,
                  idx |-> 1, events |-> << >>, successes |-> 0, rc |-> 0,
                  made |-> FALSE, files |-> BatchFiles(n, ex, js),
                  initial |-> BatchFiles(n, ex, js), log |-> << >>]

\* lines 274-290: no address is an error, otherwise the out dir is made
main_start ==
  /\ batch.phase = "start"
  /\ batch' = IF batch.n = 0
              THEN [batch EXCEPT !.phase = "returned", !.rc = 2]
              ELSE [batch EXCEPT !.phase = "loop", !.made = TRUE]
  /\ UNCHANGED << pipelineVars, cropCase, tileCase, calls, heap >>

GeocodeEvent(i) == [kind |-> "geocode", idx |-> i, dur |-> 0]

\* time.sleep(max(0.0, float(args.delay_s)))
SleepEvent(i, delay) == [kind |-> "sleep", idx |-> i, dur |-> Max(0, delay)]

\* line 296: args.skip_existing and os.path.exists(out_png)
SkipAddress(b) == skip_existing /\ b.idx \in b.existing

\* what an iteration did for its address
Visited(b, outcome) == Append(b.log, [idx |-> b.idx, outcome |-> outcome])

\* mutant: an exception for one address ends the loop
C26_AbortLoop(b) == [b EXCEPT !.idx = b.n + 1]

\* the loop goes on with the next address after an exception was caught
\* (line 310: continue; line 324: the except clause falls through)
AfterFailure(b) == [b EXCEPT !.idx = b.idx + 1]

\* lines 294-298: the PNG exists, continue
main_skip ==
  /\ batch.phase = "loop" /\ batch.idx <= batch.n
  /\ SkipAddress(batch)
  /\ batch' = [batch EXCEPT !.idx = batch.idx + 1,
                            !.log = Visited(batch, "skip")]
  /\ UNCHANGED << pipelineVars, cropCase, tileCase, calls, heap >>

\* lines 300-310: geocode_address raises, continue
main_geocode_failed ==
  /\ batch.phase = "loop" /\ batch.idx <= batch.n
  /\ ~SkipAddress(batch)
  /\ batch' = [AfterFailure(batch) EXCEPT
                 !.events = Append(batch.events, GeocodeEvent(batch.idx)),
                 !.log = Visited(batch, "geocode_failed")]
  /\ UNCHANGED << pipelineVars, cropCase, tileCase, calls, heap >>

\* lines 300-327: the address is geocoded, its image saved, then the sleep
main_saved ==
  /\ batch.phase = "loop" /\ batch.idx <= batch.n
  /\ ~SkipAddress(batch)
  /\ batch' = [batch EXCEPT
                 !.idx = batch.idx + 1,
                 !.existing = batch.existing \cup {batch.idx},
                 !.successes = batch.successes + 1,
                 !.events = batch.events \o
                              << GeocodeEvent(batch.idx),
                                 SleepEvent(batch.idx, batch.delay) >>,
                 !.files[batch.idx] = [png |-> "new", json |-> "new"],
                 !.log = Visited(batch, "saved")]
  /\ UNCHANGED << pipelineVars, cropCase, tileCase, calls, heap >>

\* lines 300-327: save_image_for_address raises, then the sleep.  It raises
\* before the PNG is written (the fetch failed), or after it: open(out_json,
\* "w") or json.dump failed, which may leave a JSON file behind.
main_save_failed ==
  /\ batch.phase = "loop" /\ batch.idx <= batch.n
  /\ ~SkipAddress(batch)
  /\ \E png \in {batch.files[batch.idx].png, "new"},
        json \in {batch.files[batch.idx].json, "new"} :
       /\ json = "new" => png = "new"
       /\ batch' = [AfterFailure(batch) EXCEPT
                      !.existing = IF png = "new"
                                   THEN batch.existing \cup {batch.idx}
                                   ELSE batch.existing,
                      !.events = batch.events \o
                                   << GeocodeEvent(batch.idx),
                                      SleepEvent(batch.idx, batch.delay) >>,
                      !.files[batch.idx] = [png |-> png, json |-> json],
                      !.log = Visited(batch, "save_failed")]
  /\ UNCHANGED << pipelineVars, cropCase, tileCase, calls, heap >>

\* lines 329-330
main_return ==
  /\ batch.phase = "loop" /\ batch.idx > batch.n
  /\ batch' = [batch EXCEPT !.phase = "returned",
                            !.rc = IF batch.successes > 0 THEN 0 ELSE 1]
  /\ UNCHANGED << pipelineVars, cropCase, tileCase, calls, heap >>

BatchNext ==
  \/ main_start
  \/ main_skip
  \/ main_geocode_failed
  \/ main_saved
  \/ main_save_failed
  \/ main_return

SpecBatch == BatchInit /\ [][BatchNext]_vars

(***************************************************************************)
(* SpecConcurrent: two fetch_satellite_bbox calls running at once, one     *)
(* step per network request and per paste.  calls[i] holds the locals of   *)
(* call i; heap holds what locals refer to: the module-level mirror lists  *)
(* and the objects made by Image.new and requests.Session.  The body of a  *)
(* response is identified by the call and the request that received it.    *)
(***************************************************************************)
Callers == {1, 2}

\* lines 11-19: the mirrors, by their position in the source
ARCGIS_EXPORT_URLS == [k \in 1..NumExportMirrors |-> k]

ARCGIS_TILE_URLS == [k \in 1..NumTileMirrors |-> k]

\* a request of one pixel (one tile at zoom 0), made by the first call
OnePixelRequest ==
  [south |-> 0, west |-> 0, north |-> 1, east |-> 1, width |-> 1,
   height |-> 1]

\* the second call makes the same request or one of a tile's size (two tiles)
ConcRequests ==
  { OnePixelRequest,
    [south |-> 0, west |-> 0, north |-> 1, east |-> 1, width |-> TileSize,
     height |-> TileSize] }

NoBody == [call |-> 0, n |-> 0]

\* what a call returns: the way it was made and the bodies it is made of
NoResult == [src |-> "none", content |-> {}]

ConcInit ==
  /\ PipeIdle
  /\ cropCase = NoCrop
  /\ tileCase = NoTileCase
  /\ batch = NoBatch
  /\ heap = [phase |-> "run", export_urls |-> ARCGIS_EXPORT_URLS,
             tile_urls |-> ARCGIS_TILE_URLS, objects |-> << >>]
  /\ \E a2 \in ConcRequests :
       calls = [i \in Callers |->
                  [pc |-> "TryingDirect",
                   args |-> IF i = 1 THEN OnePixelRequest ELSE a2,
                   exportIdx |-> 1, log |-> << >>, st |-> NoStitch,
                   canvas |-> 0, session |-> 0, img |-> NoBody,
                   data |-> NoResult, error |-> "none"]]

\* the body of the response to the next request of call i
BodyOf(i) == [call |-> i, n |-> Len(calls[i].log) + 1]

\* mutant: the canvas is one module-level object
C20_SharedCanvas(h) == 1

\* Image.new and requests.Session() make a new object
NewRef(h) == Len(h.objects) + 1

StoreAt(objs, ref, o) ==
  IF ref = Len(objs) + 1 THEN Append(objs, o) ELSE [objs EXCEPT ![ref] = o]

\* try_arcgis_export, one iteration of its loop; after the last mirror
\* fetch_satellite_bbox goes on to stitch_tiles
conc_export_request(i) ==
  LET c == calls[i]
  IN  /\ c.pc = "TryingDirect"
      /\ c.exportIdx <= Len(heap.export_urls)
      /\ \E o \in ExportOutcomes :
           LET entry_ == [kind |-> "export", x |-> 0, y |-> 0,
                          mirror |-> heap.export_urls[c.exportIdx],
                          outcome |-> o, body |-> BodyOf(i)]
               got == [src |-> "export",
                       content |-> {[px |-> 0, py |-> 0, body |-> BodyOf(i)]}]
           IN  calls' =
                 [calls EXCEPT ![i] =
                    IF o = "image"
                    THEN [c EXCEPT !.log = Append(c.log, entry_),
                                   !.data = got, !.pc = "Done"]
                    ELSE [c EXCEPT
                            !.log = Append(c.log, entry_),
                            !.exportIdx = NextMirror(c.exportIdx),
                            !.pc = IF NextMirror(c.exportIdx)
                                      > Len(heap.export_urls)
                                   THEN FetchNext(NoData)
                                   ELSE "TryingDirect"]]
      /\ UNCHANGED << heap, pipelineVars, cropCase, tileCase, batch >>

\* stitch_tiles up to its loops: the zoom, the range, the canvas, the session
conc_stitch_begin(i) ==
  LET c == calls[i]
      z == pick_zoom_for_bbox(c.args.south, c.args.west, c.args.north,
                              c.args.east, Max(c.args.width, c.args.height))
      r == TileRange(c.args.south, c.args.west, c.args.north, c.args.east, z)
      canvas == NewRef(heap)
      withCanvas == StoreAt(heap.objects, canvas,
                            [type |-> "canvas", pastes |-> {}, sent |-> 0])
      session == Len(withCanvas) + 1
  IN  /\ c.pc = "TryingStitch"
      /\ heap' = [heap EXCEPT
                    !.objects = Append(withCanvas,
                                       [type |-> "session", pastes |-> {},
                                        sent |-> 0])]
      /\ calls' = [calls EXCEPT ![i] =
                     [c EXCEPT !.pc = "Tiles", !.canvas = canvas,
                               !.session = session,
                               !.st = [z |-> z, x_min |-> r.x_min,
                                       x_max |-> r.x_max, y_min |-> r.y_min,
                                       y_max |-> r.y_max, tx |-> r.x_min,
                                       ty |-> r.y_min, mirror |-> 1,
                                       last_exc |-> FALSE]]]
      /\ UNCHANGED << pipelineVars, cropCase, tileCase, batch >>

\* fetch_tile, one request through the call's session
conc_tile_request(i) ==
  LET c == calls[i]
  IN  /\ c.pc = "Tiles"
      /\ heap' = [heap EXCEPT !.objects[c.session].sent = @ + 1]
      /\ \E o \in TileOutcomes :
           LET entry_ == [kind |-> "tile", x |-> c.st.tx, y |-> c.st.ty,
                          mirror |-> heap.tile_urls[c.st.mirror],
                          outcome |-> o, body |-> BodyOf(i)]
               exc == c.st.last_exc \/ o = "exc"
           IN  calls' =
                 [calls EXCEPT ![i] =
                    IF o = "ok"
                    THEN [c EXCEPT !.log = Append(c.log, entry_),
                                   !.img = BodyOf(i), !.pc = "Pasting"]
                    ELSE IF c.st.mirror < Len(heap.tile_urls)
                    THEN [c EXCEPT !.log = Append(c.log, entry_),
                                   !.st.mirror = c.st.mirror + 1,
                                   !.st.last_exc = exc]
                    ELSE [c EXCEPT !.log = Append(c.log, entry_),
                                   !.st.last_exc = exc,
                                   !.error = IF exc THEN "TileError"
                                                    ELSE "RuntimeError",
                                   !.pc = "Failed"]]
      /\ UNCHANGED << pipelineVars, cropCase, tileCase, batch >>

\* composite.paste(img, (px, py)) into the call's canvas
conc_paste(i) ==
  LET c == calls[i]
      p == [px |-> (c.st.tx - c.st.x_min) * TileSize,
            py |-> (c.st.ty - c.st.y_min) * TileSize, body |-> c.img]
  IN  /\ c.pc = "Pasting"
      /\ heap' = [heap EXCEPT !.objects[c.canvas].pastes = @ \cup {p}]
      /\ calls' = [calls EXCEPT ![i] =
                     [c EXCEPT !.img = NoBody,
                               !.pc = IF LastTile(c.st) THEN "Crop"
                                                        ELSE "Tiles",
                               !.st = IF LastTile(c.st) THEN c.st
                                                        ELSE NextTile(c.st)]]
      /\ UNCHANGED << pipelineVars, cropCase, tileCase, batch >>

\* the crop of the call's canvas, the resize, the encoding
conc_crop(i) ==
  LET c == calls[i]
  IN  /\ c.pc = "Crop"
      /\ calls' = [calls EXCEPT ![i] =
                     [c EXCEPT !.pc = "Done",
                               !.data = [src |-> "stitch",
                                         content |->
                                           heap.objects[c.canvas].pastes]]]
      /\ UNCHANGED << heap, pipelineVars, cropCase, tileCase, batch >>

ConcNext ==
  \E i \in Callers :
    \/ conc_export_request(i)
    \/ conc_stitch_begin(i)
    \/ conc_tile_request(i)
    \/ conc_paste(i)
    \/ conc_crop(i)

SpecConcurrent == ConcInit /\ [][ConcNext]_vars

\* what call i returns according to its arguments and to the responses it
\* received: the body of the export mirror that answered with an image, or
\* the tiles it fetched, each at its place
ExpectedResult(i) ==
  LET c  == calls[i]
      z  == pick_zoom_for_bbox(c.args.south, c.args.west, c.args.north,
                               c.args.east, Max(c.args.width, c.args.height))
      r  == TileRange(c.args.south, c.args.west, c.args.north, c.args.east, z)
      ex == {k \in DOMAIN c.log :
               c.log[k].kind = "export" /\ c.log[k].outcome = "image"}
      ok == {k \in DOMAIN c.log :
               c.log[k].kind = "tile" /\ c.log[k].outcome = "ok"}
  IN  IF ex # {}
      THEN [src |-> "export",
            content |-> {[px |-> 0, py |-> 0, body |-> c.log[k].body] :
                           k \in ex}]
      ELSE [src |-> "stitch",
            content |-> {[px |-> (c.log[k].x - r.x_min) * TileSize,
                          py |-> (c.log[k].y - r.y_min) * TileSize,
                          body |-> c.log[k].body] : k \in ok}]

(***************************************************************************)
(* SpecGeo: latlon_to_pixel_xy_in_image, then pixel_xy_to_latlon_in_image  *)
(* on the pixel it returned, for a fixed centre, zoom and image size.      *)
(***************************************************************************)
GeoLats == {r.lat : r \in GeoTable} \cup {-90 * AnglesPerDegree}

\* -180, -73.9857, 0, 2.3522, 2.353 and 180 degrees
GeoLons == {-720000000, -295942800, 0, 9408800, 9412000, 720000000}

GeoZooms == {0, 10, 17}

GeoInit ==
  /\ PipeIdle
  /\ LoopIdle
  /\ cropCase = NoCrop
  /\ \E lat \in GeoLats, lon \in GeoLons, clat \in GeoLats, clon \in GeoLons,
        z \in GeoZooms :
       tileCase = [phase |-> "in", lat |-> lat, lon |-> lon,
                   center_lat |-> clat, center_lon |-> clon, z |-> z,
                   img_size_px |-> TileSize, px |-> 0, py |-> 0,
                   lat2 |-> 0, lon2 |-> 0]

\* latlon_to_pixel_xy_in_image returns a pixel or lat_to_ytile raises
geo_to_pixel ==
  /\ tileCase.phase = "in"
  /\ LET c == tileCase
     IN  IF lat_to_ytile_raises(c.lat) \/ lat_to_ytile_raises(c.center_lat)
         THEN tileCase' = [c EXCEPT !.phase = "raised"]
         ELSE LET p == latlon_to_pixel_xy_in_image(c.lat, c.lon, c.center_lat,
                         c.center_lon, c.z, c.img_size_px)
              IN  tileCase' = [c EXCEPT !.phase = "pixel", !.px = p.px,
                                        !.py = p.py]
  /\ UNCHANGED << pipelineVars, cropCase, loopVars >>

\* pixel_xy_to_latlon_in_image on that pixel
geo_to_latlon ==
  /\ tileCase.phase = "pixel"
  /\ LET c == tileCase
         g == pixel_xy_to_latlon_in_image(c.px, c.py, c.center_lat,
                                          c.center_lon, c.z, c.img_size_px)
     IN  tileCase' = [c EXCEPT !.phase = "back", !.lat2 = g.lat,
                               !.lon2 = g.lon]
  /\ UNCHANGED << pipelineVars, cropCase, loopVars >>

GeoNext == geo_to_pixel \/ geo_to_latlon

SpecGeo == GeoInit /\ [][GeoNext]_vars

\* the pixel lies within the image: 0 <= px, py <= img_size_px
PixelInImage(c) ==
  /\ 0 <= c.px /\ c.px <= c.img_size_px * PxScale(c.z)
  /\ 0 <= c.py /\ c.py <= c.img_size_px * PxScale(c.z)

\* 1e-6 degrees
RoundTripEpsilon == AnglesPerDegree \div 1000000

(***************************************************************************)
(* The state of the orchestrator (spec 4.5) as a function of the position. *)
(***************************************************************************)
FetchState ==
  CASE pc \in {"TryingDirect", "ExportReturned"} -> "TryingDirect"
    [] pc \in {"TryingStitch", "Tiles", "Crop"} -> "TryingStitch"
    [] pc \in {"Fetched", "Saved", "Done"} -> "Done"
    [] pc \in {"Failed", "Propagated"} -> "Failed"
    [] OTHER -> "Idle"

FetchEdges ==
  { << "Idle", "TryingDirect" >>, << "TryingDirect", "Done" >>,
    << "TryingDirect", "TryingStitch" >>, << "TryingStitch", "Done" >>,
    << "TryingStitch", "Failed" >> }

\* the exceptions stitch_tiles raises
StitchErrors == {"ZeroDivisionError", "ValueError", "TileError", "RuntimeError"}

\* the tiles in the order in which composite.paste was called
PasteOrder ==
  LET fetched(e) == e.ok
      oks == SelectSeq(tileLog, fetched)
  IN  [k \in DOMAIN oks |-> << oks[k].x, oks[k].y >>]

\* the tiles of the index range, y outer and x inner
RowMajor(s) ==
  LET tiles_x == s.x_max - s.x_min + 1
      tiles_y == s.y_max - s.y_min + 1
  IN  [k \in 1..(tiles_x * tiles_y) |->
         << s.x_min + ((k - 1) % tiles_x), s.y_min + ((k - 1) \div tiles_x) >>]

\* two paste rectangles of TileSize x TileSize have no pixel in common
DisjointPastes(p, q) ==
  \/ p.px + TileSize <= q.px \/ q.px + TileSize <= p.px
  \/ p.py + TileSize <= q.py \/ q.py + TileSize <= p.py

\* the number of tiles of the stitch fetch_satellite_bbox would start
TilesOfCall(c) ==
  LET target == Max(c.width, c.height)
      z == pick_zoom_for_bbox(c.south, c.west, c.north, c.east, target)
      r == TileRange(c.south, c.west, c.north, c.east, z)
  IN  (r.x_max - r.x_min + 1) * (r.y_max - r.y_min + 1)

\* a stitch of more tiles than the model follows
StitchNotFollowed ==
  /\ pc = "TryingStitch"
  /\ ~ZoomRaises(Max(call.width, call.height))
  /\ TilesOfCall(call) > MaxTiles

\* request i + 1 of the stitch follows request i: the next mirror for the
\* same tile if request i served no tile, the first mirror for the next tile
\* in row-major order if it did
TileRequestFollows(a, b) ==
  IF a.ok
  THEN /\ b.mirror = 1
       /\ \/ b.y = a.y /\ b.x = a.x + 1
          \/ b.y = a.y + 1 /\ a.x = st.x_max /\ b.x = st.x_min
  ELSE b.x = a.x /\ b.y = a.y /\ b.mirror = a.mirror + 1

\* the tiles pasted, and the mirrors requested for a tile
TilesPasted == {<< p.x, p.y >> : p \in pasted}

MirrorsTried(x, y) ==
  {tileLog[i].mirror :
     i \in {j \in DOMAIN tileLog : tileLog[j].x = x /\ tileLog[j].y = y}}

\* the tile that holds a point, from its global pixel coordinates
TileCovering(lon, lat, z) ==
  LET p == lonlat_to_global_px(lon, lat, z)
  IN  << p[1] \div HalfPx, p[2] \div HalfPx >>

InvalidRequest(a) ==
  a.south >= a.north \/ a.west >= a.east \/ a.width <= 0 \/ a.height <= 0

(***************************************************************************)
(* Claims.                                                                 *)
(***************************************************************************)
\* C1: every call of fetch_satellite_bbox that returns bytes returns an image
\* of exactly width x height pixels, whether the bytes are the body of a
\* mirror's image response or the product of stitch_tiles.  Stated for the
\* calls with a valid bbox and a size in [1, 4096], the ones every entry
\* point lets through.
C1_ExactSize ==
  (/\ FetchState = "Done"
   /\ ~InvalidRequest(call)
   /\ call.width <= MaxImageSize /\ call.height <= MaxImageSize)
    => data.w = call.width /\ data.h = call.height

\* C2: fetch_satellite_bbox follows Idle -> TryingDirect -> {Done |
\* TryingStitch} -> {Done | Failed}; stitch_tiles is invoked if and only if
\* try_arcgis_export returned None; when the export returned bytes no tile
\* request is ever issued; the call fails only when stitch_tiles raises.
C2_Step ==
  /\ FetchState' # FetchState => << FetchState, FetchState' >> \in FetchEdges
  /\ (FetchState = "TryingDirect" /\ FetchState' # "TryingDirect")
       => /\ pc = "ExportReturned"
          /\ FetchState' = "TryingStitch" <=> data = NoData
  /\ tileLog' # tileLog => FetchState = "TryingStitch" /\ data = NoData
  /\ (FetchState' = "Failed" /\ FetchState # "Failed")
       => FetchState = "TryingStitch" /\ error' \in StitchErrors

C2_StateMachine ==
  /\ [][C2_Step]_vars
  /\ [](data.src = "export" => tileLog = << >>)
  /\ [](FetchState = "Failed" <=> error # "none")

C2_Witness ==
  /\ FetchState = "Done"
  /\ data.src = "stitch"
  /\ Len(exportLog) = NumExportMirrors
  /\ tileLog # << >>

\* C3: stitch_tiles returns bytes only if every tile of the index range was
\* fetched and pasted; if every mirror failed for some tile the stitch raises,
\* no image of a canvas with a missing tile is returned, and the error
\* reaches the caller of fetch_satellite_bbox as the terminal failure.
C3_NoMissingTile ==
  /\ data.src = "stitch"
       => /\ TilesPasted = RangeTiles(st)
          /\ \A p \in pasted : /\ p.px = (p.x - st.x_min) * TileSize
                               /\ p.py = (p.y - st.y_min) * TileSize
  /\ \A i \in DOMAIN tileLog :
       LET x == tileLog[i].x
           y == tileLog[i].y
       IN  (MirrorsTried(x, y) = 1..NumTileMirrors /\ << x, y >> \notin TilesPasted)
             => /\ pc \in {"Failed", "Propagated"}
                /\ error \in {"TileError", "RuntimeError"}
                /\ data = NoData
  /\ pc = "Propagated" => error # "none" /\ data = NoData

C3_Witness ==
  /\ pc = "Propagated"
  /\ error = "RuntimeError"
  /\ pasted # {}
  /\ Len(exportLog) = NumExportMirrors

\* C4 as amended: the export mirrors are requested in list order, each at most
\* once, mirror k only after every mirror before it failed (transport failure,
\* non-image response, or failure while reading the body of an image
\* response); after the first image response whose body was read the bytes
\* are returned and no later mirror is requested.
C4_MirrorOrder ==
  /\ Len(exportLog) <= NumExportMirrors
  /\ \A i \in DOMAIN exportLog :
       /\ exportLog[i].mirror = i
       /\ i < Len(exportLog) => exportLog[i].outcome \in ExportFailures
       /\ exportLog[i].outcome = "image"
            => /\ i = Len(exportLog)
               /\ data.src = "export"
               /\ pc # "TryingDirect"

C4_Witness ==
  /\ Len(exportLog) = NumExportMirrors
  /\ exportLog[1].outcome = "readfail"
  /\ exportLog[NumExportMirrors].outcome = "image"
  /\ FetchState = "Done"

\* C4 as stated: the same, with "after the first image response (a response
\* whose declared content type is an image) the bytes are returned and no
\* later mirror is requested".
C4_Original ==
  /\ Len(exportLog) <= NumExportMirrors
  /\ \A i \in DOMAIN exportLog :
       /\ exportLog[i].mirror = i
       /\ i < Len(exportLog) => exportLog[i].outcome \in ExportFailures
       /\ exportLog[i].outcome \in {"image", "readfail"}
            => /\ i = Len(exportLog)
               /\ data.src = "export"
               /\ pc # "TryingDirect"

\* C5: whatever the outcomes of the mirrors, try_arcgis_export returns None
\* when no mirror yielded an image, and no exception leaves it.
C5_ExportNeverRaises ==
  /\ FetchState = "TryingDirect" => error = "none"
  /\ error \in {"none"} \cup StitchErrors
  /\ error # "none" => Len(exportLog) = NumExportMirrors
  /\ (pc = "ExportReturned"
        /\ \A i \in DOMAIN exportLog : exportLog[i].outcome \in ExportFailures)
       => data = NoData /\ Len(exportLog) = NumExportMirrors

C5_Witness ==
  /\ pc = "TryingStitch"
  /\ data = NoData
  /\ {exportLog[i].outcome : i \in DOMAIN exportLog} = {"readfail", "transport"}

\* C6: a request with south >= north, west >= east, width <= 0 or height <= 0
\* is rejected before any network request or file-system operation, on the
\* paths of the wrapper script, the satdist CLI, save_satellite_bbox and
\* fetch_satellite_bbox.
C6_RejectedBeforeIO ==
  (entry \in {"wrapper", "cli", "save", "core"} /\ InvalidRequest(args))
    => net = 0 /\ dirs = {} /\ files = InitFiles(args)

\* C7: when the fetch fails terminally, save_satellite_bbox propagates the
\* error and nothing is written: the output file is neither created nor
\* modified, and the batch tool writes no metadata JSON.
C7_NoWriteOnFailure ==
  /\ FetchState = "Failed" => files = InitFiles(args)
  /\ pc = "Propagated" => error # "none"

C7_Witness ==
  /\ pc = "Propagated"
  /\ entry = "cli"
  /\ args.exists
  /\ files["out"] = "old"
  /\ error = "TileError"

\* C8: every call of the fetch core that comes from the wrapper script, the
\* satdist CLI or the batch tool passes a width and a height in [1, 4096].
C8_SizesClamped ==
  (call.made /\ entry \in {"wrapper", "cli", "batch"})
    => /\ call.width \in 1..MaxImageSize
       /\ call.height \in 1..MaxImageSize

\* C9: for every canvas of W x H pixels (positive multiples of 256) and every
\* rounded corner coordinate, negative and beyond the canvas included, the
\* clamped crop rectangle has 0 <= left < right <= W and
\* 0 <= top < bottom <= H.
C9_CropInCanvas ==
  cropCase.phase = "out"
    => LET r == cropCase.rect
       IN  /\ 0 <= r[1] /\ r[1] < r[3] /\ r[3] <= cropCase.W
           /\ 0 <= r[2] /\ r[2] < r[4] /\ r[4] <= cropCase.H

C9_Witness ==
  /\ cropCase.phase = "out"
  /\ cropCase.left > cropCase.W
  /\ cropCase.right < 0
  /\ cropCase.top < 0
  /\ cropCase.bottom > cropCase.H

\* C10: for every valid bbox and the zoom selected for it, the tile index
\* range has x_min <= x_max and y_min <= y_max and contains the tile that
\* covers each of the four bbox corners.
C10_CornersInRange ==
  tileCase.phase = "out"
    => /\ tileCase.x_min <= tileCase.x_max
       /\ tileCase.y_min <= tileCase.y_max
       /\ \A lon \in {tileCase.west, tileCase.east},
             lat \in {tileCase.north, tileCase.south} :
            LET t == TileCovering(lon, lat, tileCase.z)
            IN  /\ t[1] \in tileCase.x_min..tileCase.x_max
                /\ t[2] \in tileCase.y_min..tileCase.y_max

C10_Witness ==
  /\ tileCase.phase = "out"
  /\ tileCase.x_min < tileCase.x_max
  /\ tileCase.y_min < tileCase.y_max
  /\ tileCase.north >= 86
  /\ tileCase.z > 0

\* C11: for a bbox of zero area stitch_tiles uses at least one tile per axis,
\* a canvas that is not empty and a crop of at least 1 x 1 pixel inside it,
\* and the image it encodes has the requested size; the latitude is clamped
\* before the tile indices and the pixel rows are computed, so the row
\* indices stay within one tile of the world (-1 .. 2^z) and the pixel rows
\* of latitudes beyond the limit are those of the limit.
C11_ZeroArea ==
  /\ tileCase.phase = "out" =>
       /\ tileCase.x_max - tileCase.x_min + 1 >= 1
       /\ tileCase.y_max - tileCase.y_min + 1 >= 1
       /\ tileCase.y_min >= -1 /\ tileCase.y_max <= 2^tileCase.z
       /\ tileCase.north >= 86 =>
            lonlat_to_global_px(tileCase.west, tileCase.north, tileCase.z)[2]
              = lat_to_ytile(86, tileCase.z)
       /\ tileCase.south <= -86 =>
            lonlat_to_global_px(tileCase.west, tileCase.south, tileCase.z)[2]
              = lat_to_ytile(-86, tileCase.z)
  /\ cropCase.phase = "out" =>
       /\ cropCase.W >= TileSize /\ cropCase.H >= TileSize
       /\ 0 <= cropCase.rect[1] /\ cropCase.rect[1] < cropCase.rect[3]
       /\ cropCase.rect[3] <= cropCase.W
       /\ 0 <= cropCase.rect[2] /\ cropCase.rect[2] < cropCase.rect[4]
       /\ cropCase.rect[4] <= cropCase.H
       /\ cropCase.out.w = tileCase.target /\ cropCase.out.h = tileCase.target

\* a point at the pole (both pairs degenerate, the latitude beyond the
\* limit) cropped to one pixel and resized to a 256 x 256 request
C11_Witness ==
  /\ cropCase.phase = "out"
  /\ tileCase.south = tileCase.north /\ tileCase.west = tileCase.east
  /\ tileCase.north = 90
  /\ tileCase.target = TileSize
  /\ cropCase.W = TileSize /\ cropCase.H = TileSize
  /\ cropCase.rect[3] - cropCase.rect[1] = 1
  /\ cropCase.rect[4] - cropCase.rect[2] = 1
  /\ cropCase.out.w = TileSize

\* C12: pick_zoom_for_bbox returns an integer z with 0 <= z <= 19 for every
\* valid bbox and every target size >= 1, bboxes at the poles, extremely
\* narrow ones and ones as wide as the globe included.
C12_ZoomInRange ==
  tileCase.phase = "out" => tileCase.z \in 0..MaxZoom

\* the narrowest bbox, reaching the pole, at the largest target: the zoom is
\* capped at 19
C12_Witness ==
  /\ tileCase.phase = "out"
  /\ tileCase.dM = 1 /\ tileCase.target = MaxImageSize
  /\ tileCase.north = 90
  /\ tileCase.z = MaxZoom

\* C13: whenever stitch_tiles returns, the image it encodes has exactly
\* width x height pixels, whatever the crop rectangle: a crop that differs
\* from the request in width or in height is resized, one that matches in
\* both is passed through.
C13_ResizedToRequest ==
  cropCase.phase = "out" =>
    /\ cropCase.out.src = "stitch"
    /\ cropCase.out.w = cropCase.width
    /\ cropCase.out.h = cropCase.height

\* a crop as wide as the request but not as high has been resized
C13_Witness ==
  /\ cropCase.phase = "out"
  /\ cropCase.cw = cropCase.width
  /\ cropCase.ch = TileSize + 1 /\ cropCase.height = TileSize
  /\ cropCase.out.h = TileSize

\* C14: for every input bbox (pairs in any order, degenerate pairs included)
\* and every pad ratio the batch tool accepts, the bbox that normalize_bbox
\* and pad_bbox produce has south < north and west < east, both latitudes in
\* [-90, 90] and both longitudes in [-180, 180].
C14_PaddedBoxValid ==
  tileCase.phase = "out" =>
    LET o == tileCase.out
    IN  /\ FineLess(o.south, o.north)
        /\ FineLess(o.west, o.east)
        /\ ~FineLess(o.south, Fine(-900, 0)) /\ ~FineLess(Fine(900, 0), o.north)
        /\ ~FineLess(o.west, Fine(-1800, 0)) /\ ~FineLess(Fine(1800, 0), o.east)

\* C15: pixel_to_lonlat, distance_between_image_pixels_m and
\* meters_per_pixel_at_center each raise a validation error when width <= 0,
\* height <= 0, south >= north or west >= east, and return a value for every
\* input with width, height > 0, south < north and west < east.
C15_ValidatedOrReturned ==
  LET c == tileCase
      invalid == \/ c.width <= 0 \/ c.height <= 0
                 \/ c.south >= c.north \/ c.west >= c.east
  IN  /\ c.phase = "raised" => invalid
      /\ c.phase = "returned" => ~invalid

\* C16: for every valid bbox and positive size pixel_to_lonlat maps pixel
\* (0, 0) to exactly (west, north) and pixel (width, height) to exactly
\* (east, south), and every pixel with 0 <= x <= width and 0 <= y <= height
\* to a point inside the bbox.
C16_CornersExact ==
  tileCase.phase = "out" =>
    LET c == tileCase
    IN  /\ (c.x = 0 /\ c.y = 0) => (c.lon = c.west /\ c.lat = c.north)
        /\ (c.x = c.width /\ c.y = c.height) =>
             (c.lon = c.east /\ c.lat = c.south)
        /\ c.west <= c.lon /\ c.lon <= c.east
        /\ c.south <= c.lat /\ c.lat <= c.north

\* C17 as stated: for every valid bbox, those spanning more than 180 degrees
\* of longitude included, moving the second pixel farther from the first
\* along a row or a column never decreases distance_between_image_pixels_m.
C17_Original ==
  [][tileCase.phase = "out" => tileCase'.d >= tileCase.d]_vars

\* C17: for a valid bbox spanning at most 180 degrees of longitude, a fixed
\* image size, a fixed first pixel and a fixed row or column, moving the
\* second pixel farther from the first along that axis never decreases
\* distance_between_image_pixels_m; this holds along a column for every
\* valid bbox.
C17_Monotone ==
  [][(/\ tileCase.phase = "out"
      /\ tileCase.axis = "column" \/ tileCase.east - tileCase.west <= 180)
       => tileCase'.d >= tileCase.d]_vars

\* the second pixel has crossed a bbox 180 degrees wide along its middle row
\* and the distance is positive
C17_Witness ==
  /\ tileCase.phase = "out"
  /\ tileCase.axis = "row"
  /\ tileCase.east - tileCase.west = 180
  /\ tileCase.x1 = 0 /\ tileCase.x2 = tileCase.width
  /\ tileCase.y1 = 2
  /\ tileCase.d > 0

\* C18: haversine_m(lat, lon, lat, lon) is exactly 0 for every point, and so
\* distance_between_image_pixels_m is 0 when both pixels are the same point.
C18_ZeroAtSamePoint ==
  tileCase.phase = "out" =>
    LET c  == tileCase
        p2 == pixel_to_lonlat(c.x2, c.y2, c.width, c.height, c.south, c.west,
                              c.north, c.east, WideBits)
    IN  /\ haversine_m(p2.lat, p2.lon, p2.lat, p2.lon) = 0
        /\ (c.x1 = c.x2 /\ c.y1 = c.y2) => c.d = 0

\* the distance of a pixel from itself has been measured, at a point whose
\* latitude and longitude differ
C18_Witness ==
  /\ tileCase.phase = "out"
  /\ tileCase.x1 = tileCase.x2 /\ tileCase.y1 = tileCase.y2
  /\ tileCase.x1 = 1 /\ tileCase.y1 = 1
  /\ tileCase.south = -30 /\ tileCase.west = 80
  /\ tileCase.d = 0

\* C19: in the batch tool's loop, between any two consecutive geocoding
\* requests a sleep of at least delay_s takes place, whatever the outcome of
\* the earlier address (success, geocoding failure, image-saving failure).
C19_SleepBetweenGeocodes ==
  batch.phase \in {"loop", "returned"} =>
    \A i \in DOMAIN batch.events, j \in DOMAIN batch.events :
      (/\ i < j
       /\ batch.events[i].kind = "geocode"
       /\ batch.events[j].kind = "geocode")
        => \E k \in (i + 1)..(j - 1) :
             /\ batch.events[k].kind = "sleep"
             /\ batch.events[k].dur >= batch.delay

\* C20: two fetch_satellite_bbox calls interleaved at single requests and
\* pastes share no mutable state: the mirror lists are never modified, each
\* call has a canvas and a session of its own, a canvas holds only what its
\* call pasted and a session has sent only its call's tile requests, and
\* what a call returns is determined by its own arguments and the responses
\* to its own requests.
C20_NoSharedState ==
  heap.phase = "run" =>
    /\ heap.export_urls = ARCGIS_EXPORT_URLS
    /\ heap.tile_urls = ARCGIS_TILE_URLS
    /\ \A i \in Callers, j \in Callers :
         (i # j /\ calls[i].canvas # 0 /\ calls[j].canvas # 0) =>
           {calls[i].canvas, calls[i].session}
             \cap {calls[j].canvas, calls[j].session} = {}
    /\ \A i \in Callers :
         calls[i].canvas # 0 =>
           /\ \A p \in heap.objects[calls[i].canvas].pastes : p.body.call = i
           /\ heap.objects[calls[i].session].sent
                = Cardinality({k \in DOMAIN calls[i].log :
                                 calls[i].log[k].kind = "tile"})
    /\ \A i \in Callers :
         calls[i].pc = "Done" => calls[i].data = ExpectedResult(i)

\* both calls stitch the same tile; the second call made its canvas first
\* and is about to crop it when the first call has returned its own image
C20_Witness ==
  /\ heap.phase = "run"
  /\ calls[1].args = calls[2].args
  /\ calls[1].pc = "Done" /\ calls[1].data.src = "stitch"
  /\ calls[1].data.content # {}
  /\ calls[2].pc = "Crop"
  /\ calls[2].canvas < calls[1].canvas

\* C21: for a fixed image centre, zoom and image size,
\* pixel_xy_to_latlon_in_image(latlon_to_pixel_xy_in_image(lat, lon))
\* recovers (lat, lon) within 1e-6 degrees for every point whose pixel lies
\* within the image, and tile_to_lon / tile_to_lat invert lon_to_xtile /
\* lat_to_ytile within the same epsilon.
C21_RoundTrip ==
  (tileCase.phase = "back" /\ PixelInImage(tileCase)) =>
    LET c == tileCase
    IN  /\ Abs(c.lat2 - c.lat) <= RoundTripEpsilon
        /\ Abs(c.lon2 - c.lon) <= RoundTripEpsilon
        /\ Abs(tile_to_lat(geo_lat_to_ytile(c.lat, c.z), c.z) - c.lat)
             <= RoundTripEpsilon
        /\ Abs(tile_to_lon(geo_lon_to_xtile(c.lon, c.z), c.z) - c.lon)
             <= RoundTripEpsilon

\* C22: in a stitch that completes every tile of the index range is fetched
\* and pasted exactly once, in row-major order (y outer, x inner), at canvas
\* offset ((x - x_min) * 256, (y - y_min) * 256); the paste rectangles are
\* pairwise disjoint, lie inside the canvas and together cover it (disjoint
\* rectangles inside the canvas whose areas add up to the canvas area).
C22_PastedOnceInOrder ==
  (pc = "Crop" \/ data.src = "stitch") =>
    LET W == (st.x_max - st.x_min + 1) * TileSize
        H == (st.y_max - st.y_min + 1) * TileSize
    IN  /\ PasteOrder = RowMajor(st)
        /\ pasted = {[x |-> t[1], y |-> t[2],
                      px |-> (t[1] - st.x_min) * TileSize,
                      py |-> (t[2] - st.y_min) * TileSize] : t \in RangeTiles(st)}
        /\ \A p \in pasted : \A q \in pasted \ {p} : DisjointPastes(p, q)
        /\ \A p \in pasted : /\ 0 <= p.px /\ p.px + TileSize <= W
                             /\ 0 <= p.py /\ p.py + TileSize <= H
        /\ Cardinality(pasted) * TileSize * TileSize = W * H

\* a stitch of two columns and two rows of tiles has completed, one of its
\* tiles served by the second mirror only
C22_Witness ==
  /\ data.src = "stitch"
  /\ st.x_max = st.x_min + 1
  /\ st.y_max = st.y_min + 1
  /\ Len(tileLog) = 5

\* C23: every fetch_satellite_bbox call terminates with bytes or an error
\* after a bounded number of requests: at most one request per export mirror,
\* then at most one request per (tile, tile mirror) pair, the mirrors of a
\* tile in list order and the tiles in row-major order, with no retry; the
\* first tile for which all mirrors fail stops the stitch, so no tile after
\* it is requested.
C23_BoundedRequests ==
  /\ Len(exportLog) <= NumExportMirrors
  /\ \A i \in DOMAIN exportLog : exportLog[i].mirror = i
  /\ tileLog # << >> =>
       /\ Len(exportLog) = NumExportMirrors
       /\ \A i \in DOMAIN exportLog : exportLog[i].outcome # "image"
       /\ tileLog[1] = [x |-> st.x_min, y |-> st.y_min, mirror |-> 1,
                        ok |-> tileLog[1].ok]
  /\ \A i \in DOMAIN tileLog :
       /\ tileLog[i].mirror \in 1..NumTileMirrors
       /\ << tileLog[i].x, tileLog[i].y >> \in RangeTiles(st)
       /\ i < Len(tileLog) => TileRequestFollows(tileLog[i], tileLog[i + 1])
       /\ (~tileLog[i].ok /\ tileLog[i].mirror = NumTileMirrors)
            => /\ i = Len(tileLog)
               /\ pc \in {"Failed", "Propagated"}
  /\ \A i, j \in DOMAIN tileLog :
       (/\ tileLog[i].x = tileLog[j].x /\ tileLog[i].y = tileLog[j].y
        /\ tileLog[i].mirror = tileLog[j].mirror) => i = j
  /\ net = Len(exportLog) + Len(tileLog)
  /\ Len(tileLog) <= Cardinality(RangeTiles(st)) * NumTileMirrors

C23_Terminates ==
  /\ []C23_BoundedRequests
  /\ (FetchState \in {"TryingDirect", "TryingStitch"})
       ~> (FetchState \in {"Done", "Failed"} \/ StitchNotFollowed)

\* a stitch of more than two tiles has failed: every export mirror failed,
\* the first tile was served by the first mirror, every mirror failed for the
\* second tile, and no other request was made
C23_Witness ==
  /\ pc = "Propagated"
  /\ error \in {"TileError", "RuntimeError"}
  /\ Cardinality(RangeTiles(st)) > 2
  /\ Len(exportLog) = NumExportMirrors
  /\ Len(tileLog) = 1 + NumTileMirrors
  /\ tileLog[1].ok
  /\ entry = "core"
  /\ net = NumExportMirrors + 1 + NumTileMirrors

\* C24: for every valid bbox within [-90, 90] x [-180, 180], edges at the
\* limits included, and the selected zoom z, every tile index stitch_tiles
\* requests (every tile of its index range) exists in the pyramid:
\* 0 <= x <= 2^z - 1 and 0 <= y <= 2^z - 1.
C24_TilesExist ==
  tileCase.phase = "out" =>
    \A x \in tileCase.x_min..tileCase.x_max,
       y \in tileCase.y_min..tileCase.y_max :
      /\ 0 <= x /\ x <= 2^tileCase.z - 1
      /\ 0 <= y /\ y <= 2^tileCase.z - 1

\* C25: for a valid bbox the rounded local pixel coordinates of the
\* west/north and east/south corners lie inside the canvas built from the
\* floor tile range, so each edge of the crop rectangle differs from the
\* rounded bbox coordinate by at most 1 pixel, and differs at all only where
\* the clamp enforces the minimum extent of 1 pixel (the rounded extent on
\* that axis is 0).
C25_CropIsBbox ==
  cropCase.phase = "out" =>
    LET c == cropCase
        r == c.rect
    IN  /\ 0 <= c.left /\ c.left <= c.right /\ c.right <= c.W
        /\ 0 <= c.top /\ c.top <= c.bottom /\ c.bottom <= c.H
        /\ Abs(r[1] - c.left) <= 1 /\ Abs(r[3] - c.right) <= 1
        /\ Abs(r[2] - c.top) <= 1 /\ Abs(r[4] - c.bottom) <= 1
        /\ (r[1] # c.left \/ r[3] # c.right)
             => (c.left = c.right /\ r[3] - r[1] = 1)
        /\ (r[2] # c.top \/ r[4] # c.bottom)
             => (c.top = c.bottom /\ r[4] - r[2] = 1)

\* a bbox several tiles wide and high whose crop rectangle is exactly the
\* rounded bbox, away from the canvas origin
C25_Witness ==
  /\ cropCase.phase = "out"
  /\ tileCase.x_min > 0 /\ tileCase.y_min > 0
  /\ cropCase.W > TileSize /\ cropCase.H > TileSize
  /\ cropCase.rect = << cropCase.left, cropCase.top, cropCase.right,
                        cropCase.bottom >>
  /\ cropCase.left > 0 /\ cropCase.top > 0

\* C26: in the batch tool's main loop a failure for one address (geocoding
\* error or image fetch/save error) is contained to that address: every
\* later address is still attempted in input order with its original 1-based
\* index, and the final success count equals the number of addresses for
\* which save_image_for_address returned.
C26_FailureContained ==
  batch.phase \in {"loop", "returned"} =>
    LET saved == {k \in DOMAIN batch.log : batch.log[k].outcome = "saved"}
    IN  /\ \A k \in DOMAIN batch.log : batch.log[k].idx = k
        /\ batch.phase = "loop" => Len(batch.log) = batch.idx - 1
        /\ (batch.phase = "returned" /\ batch.n > 0)
             => Len(batch.log) = batch.n
        /\ \A k \in DOMAIN batch.events :
             batch.events[k].kind = "geocode"
               => batch.log[batch.events[k].idx].outcome # "skip"
        /\ batch.successes = Cardinality(saved)
        /\ batch.phase = "returned" /\ batch.n > 0
             => batch.rc = (IF saved = {} THEN 1 ELSE 0)

\* a run over three addresses has returned: geocoding failed for the first,
\* saving the image failed for the second, the third was saved
C26_Witness ==
  /\ batch.phase = "returned"
  /\ batch.n = 3
  /\ batch.log = << [idx |-> 1, outcome |-> "geocode_failed"],
                    [idx |-> 2, outcome |-> "save_failed"],
                    [idx |-> 3, outcome |-> "saved"] >>
  /\ batch.successes = 1

\* C27: in the batch tool an address whose output PNG already exists is
\* skipped: no geocoding request and no imagery request is issued for it
\* (neither geocode_address nor save_image_for_address is called), and its
\* existing PNG and metadata JSON are left unchanged.
C27_ExistingSkipped ==
  batch.phase \in {"loop", "returned"} =>
    \A i \in 1..batch.n :
      batch.initial[i].png # "absent" =>
        /\ batch.files[i] = batch.initial[i]
        /\ \A k \in DOMAIN batch.events : batch.events[k].idx # i
        /\ \A k \in DOMAIN batch.log :
             batch.log[k].idx = i => batch.log[k].outcome = "skip"
        /\ batch.idx > i => \E k \in DOMAIN batch.log : batch.log[k].idx = i

\* a run has returned that skipped its second address, whose PNG and JSON
\* were there, and saved the first and the third
C27_Witness ==
  /\ batch.phase = "returned"
  /\ batch.n = 3
  /\ batch.initial[2] = [png |-> "old", json |-> "old"]
  /\ batch.log[2].outcome = "skip"
  /\ batch.log[1].outcome = "saved"
  /\ batch.log[3].outcome = "saved"

====
